---- MODULE Spec2Model ----
(***************************************************************************)
(* A model of the netboxes browser development environment core:           *)
(*   - FileSystemImpl   (src/src/core/FileSystem.ts)                       *)
(*   - ProcessManagerImpl / ProcessImpl (src/src/core/ProcessManager.ts)   *)
(*                                                                         *)
(* Strings are sequences of one-character strings, so that path            *)
(* normalisation, prefix tests and slicing are computed as the code        *)
(* computes them.  Every file-system operation is one action: the entry    *)
(* store is accessed key by key and the handler runs to completion or to   *)
(* its first thrown error, keeping whatever it had already written.        *)
(***************************************************************************)
EXTENDS Integers, Sequences, FiniteSets, TLC

VARIABLES
  store,      \* IndexedDB object store 'files': key (path string) -> FileEntry
  fsReady,    \* FileSystemImpl.initialize() has completed
  now,        \* Date.now()
  fsOp,       \* the last file-system call: [name, path, recursive]
  fsResult,   \* its outcome: "OK" or the errno class of the thrown Error
  fsEvents,   \* the 'file:change' events it published, in order
  fsRead,     \* the value it resolved with, for a readFile that succeeded
  norm,       \* a path handed to normalizePath, with the result once it has run
  watches,    \* every watch() made, and the emitter's 'file:change' handler list
  nextPid,    \* ProcessManagerImpl.nextPid
  spawnCalls, \* every spawn() invocation, in invocation order
  procs,      \* every ProcessImpl handle constructed, in construction order
  processes,  \* ProcessManagerImpl.processes: pid -> handle
  kills,      \* every kill() invocation (manager, handle or killAll)
  killAlls,   \* every killAll() invocation
  waits,      \* every ProcessImpl.wait() invocation
  pmEvents,   \* the 'process:spawn' / 'process:exit' events published, in order
  env         \* the DevEnvironment object, with the calls made on it

fsVars == <<store, fsReady, now, fsOp, fsResult, fsEvents, fsRead, norm, watches>>
pmVars == <<nextPid, spawnCalls, procs, processes, kills, killAlls, waits, pmEvents>>
vars == <<fsVars, pmVars, env>>

----------------------------------------------------------------------------
(* Bounds                                                                  *)

MaxClock == 1
MaxSpawns == 2      \* spawn() invocations
MaxCalls == 3       \* spawn(), kill(), killAll() and wait() invocations together
MaxEnvCalls == 2    \* initialize(), loadFeature() and dispose() invocations together
MaxLen == 5         \* characters of a path handed to normalizePath
MaxWatches == 2     \* watch() invocations, and calls of the functions they returned

----------------------------------------------------------------------------
(* Strings                                                                 *)

SLASH == "/"
ROOT == <<"/">>

\* UTF-16 code units of the characters used, the order Array.prototype.sort uses
CharCode(c) == CASE c = "." -> 46 [] c = "/" -> 47 [] c = "a" -> 97 [] c = "b" -> 98 [] OTHER -> 122

RECURSIVE StrLess(_, _)
StrLess(a, b) ==
  IF a = <<>> THEN b # <<>>
  ELSE IF b = <<>> THEN FALSE
  ELSE IF Head(a) # Head(b) THEN CharCode(Head(a)) < CharCode(Head(b))
  ELSE StrLess(Tail(a), Tail(b))

\* String.prototype.startsWith
startsWith(s, prefix) ==
  /\ Len(prefix) <= Len(s)
  /\ SubSeq(s, 1, Len(prefix)) = prefix

\* String.prototype.slice(from) with a 0-based index
sliceFrom(s, from) == SubSeq(s, from + 1, Len(s))

\* String.prototype.slice(0, to) with a 0-based exclusive end
sliceTo(s, to) == SubSeq(s, 1, to)

\* String.prototype.indexOf('/'): 0-based, -1 when absent
indexOfSlash(s) ==
  IF \E i \in 1..Len(s) : s[i] = SLASH
  THEN (CHOOSE i \in 1..Len(s) : s[i] = SLASH /\ \A j \in 1..(i-1) : s[j] # SLASH) - 1
  ELSE -1

\* String.prototype.lastIndexOf('/'): 0-based, -1 when absent
lastIndexOfSlash(s) ==
  IF \E i \in 1..Len(s) : s[i] = SLASH
  THEN (CHOOSE i \in 1..Len(s) : s[i] = SLASH /\ \A j \in (i+1)..Len(s) : s[j] # SLASH) - 1
  ELSE -1

\* path.split('/').filter(Boolean): the non-empty segments between slashes
RECURSIVE splitParts(_, _, _)
splitParts(s, i, cur) ==
  IF i > Len(s) THEN (IF cur = <<>> THEN <<>> ELSE <<cur>>)
  ELSE IF s[i] = SLASH
       THEN (IF cur = <<>> THEN <<>> ELSE <<cur>>) \o splitParts(s, i + 1, <<>>)
       ELSE splitParts(s, i + 1, Append(cur, s[i]))

\* Array.prototype.join('/')
RECURSIVE joinSlash(_)
joinSlash(parts) ==
  IF parts = <<>> THEN <<>>
  ELSE IF Len(parts) = 1 THEN parts[1]
  ELSE parts[1] \o <<SLASH>> \o joinSlash(Tail(parts))

\* a loop that pops on '..' and pushes every other part, '.' included
RECURSIVE resolveParts_KeepsDot(_, _)
resolveParts_KeepsDot(parts, normalized) ==
  IF parts = <<>> THEN normalized
  ELSE IF Head(parts) = <<".", ".">>
       THEN resolveParts_KeepsDot(Tail(parts),
                                  IF normalized = <<>> THEN <<>>
                                  ELSE SubSeq(normalized, 1, Len(normalized) - 1))
       ELSE resolveParts_KeepsDot(Tail(parts), Append(normalized, Head(parts)))

\* the loop of normalizePath: '..' pops (a no-op on the empty stack), '.' is skipped
RECURSIVE resolveParts(_, _)
resolveParts(parts, normalized) ==
  IF parts = <<>> THEN normalized
  ELSE LET part == Head(parts) IN
       IF part = <<".", ".">>
       THEN resolveParts(Tail(parts),
                         IF normalized = <<>> THEN <<>>
                         ELSE SubSeq(normalized, 1, Len(normalized) - 1))
       ELSE IF part # <<".">>
       THEN resolveParts(Tail(parts), Append(normalized, part))
       ELSE resolveParts(Tail(parts), normalized)

normalizePath(path) ==
  IF path = <<>> \/ path = <<".">> THEN ROOT
  ELSE <<SLASH>> \o joinSlash(resolveParts(splitParts(path, 1, <<>>), <<>>))

dirname(path) ==
  LET normalized == normalizePath(path)
      lastSlash == lastIndexOfSlash(normalized)
  IN IF lastSlash <= 0 THEN ROOT ELSE sliceTo(normalized, lastSlash)

basename(path) ==
  LET normalized == normalizePath(path)
      lastSlash == lastIndexOfSlash(normalized)
  IN IF lastSlash = -1 THEN normalized ELSE sliceFrom(normalized, lastSlash + 1)

----------------------------------------------------------------------------
(* Inputs of the file-system calls                                         *)

PathInputs ==
  { <<"/">>,
    <<"/", "a">>,
    <<"/", "b">>,
    <<"/", "a", "/", "b">>,
    <<"a", "/", ".", "/", "b", "/">>,
    <<"/", "b", "/", ".", ".", "/", "a">>,
    <<>> }

\* a content argument: a Uint8Array of bytes, or a string of UTF-16 code units
Bytes(data) == [type |-> "Uint8Array", data |-> data]

Text(data) == [type |-> "string", data |-> data]

\* the bytes 'x' and 'é' in UTF-8, and the string 'é'
Contents == { Bytes(<<120>>), Bytes(<<195, 169>>), Text(<<233>>) }

\* every string of at most MaxLen characters over '/', '.' and a name character
PathChars == {"/", ".", "a"}

PathStrings == UNION { [1..n -> PathChars] : n \in 0..MaxLen }

\* a path handed to normalizePath: no result until the function has run
NormCall(path) == [path |-> path, result |-> <<>>, again |-> <<>>]

----------------------------------------------------------------------------
(* The entry store (idb object store 'files', keyPath 'path')              *)

dbHas(st, key) == key \in DOMAIN st

dbPut(st, entry) ==
  [k \in (DOMAIN st) \cup {entry.path} |-> IF k = entry.path THEN entry ELSE st[k]]

dbDelete(st, key) == [k \in (DOMAIN st) \ {key} |-> st[k]]

FileEntry(path, content, type, modified) ==
  [path |-> path, content |-> content, type |-> type, modified |-> modified]

\* new Uint8Array()
NoContent == Bytes(<<>>)

\* new TextEncoder().encode(content): UTF-8, for code units outside the
\* surrogate range
RECURSIVE encode(_)
encode(units) ==
  IF units = <<>> THEN <<>>
  ELSE LET c == Head(units)
           bytes == IF c < 128 THEN <<c>>
                    ELSE IF c < 2048 THEN <<192 + (c \div 64), 128 + (c % 64)>>
                    ELSE <<224 + (c \div 4096), 128 + ((c \div 64) % 64), 128 + (c % 64)>>
       IN bytes \o encode(Tail(units))

\* the outcome of one handler: the store it leaves, the events it emitted, its error
Outcome(st, events, err) == [store |-> st, events |-> events, err |-> err]

ChangeEvent(path, type) == [path |-> path, type |-> type]

\* one call of a file-system operation
FsCall(name, path, recursive, content) ==
  [name |-> name, path |-> path, recursive |-> recursive, content |-> content]

\* stat(path) succeeds
statOk(st, path) == dbHas(st, normalizePath(path))

exists(st, path) ==
  IF normalizePath(path) = ROOT THEN TRUE ELSE statOk(st, path)

----------------------------------------------------------------------------
(* FileSystemImpl operations, as functions from the store to an Outcome    *)

\* Array.prototype.sort() on a set of distinct strings
RECURSIVE sortStrings(_)
sortStrings(S) ==
  IF S = {} THEN <<>>
  ELSE LET least == CHOOSE x \in S : \A y \in S \ {x} : StrLess(x, y)
       IN <<least>> \o sortStrings(S \ {least})

\* the scan of readdir: the first segment past the prefix of every key under it
readdirNames(st, normalizedPath) ==
  LET prefix == IF normalizedPath = ROOT THEN ROOT ELSE normalizedPath \o <<SLASH>>
      under == { k \in DOMAIN st : startsWith(k, prefix) /\ k # normalizedPath }
      children == { LET relative == sliceFrom(filePath, Len(prefix))
                        firstSlash == indexOfSlash(relative)
                    IN IF firstSlash = -1 THEN relative ELSE sliceTo(relative, firstSlash)
                    : filePath \in under }
  IN sortStrings(children)

\* a readFile that looks the path up as given
readFile_RawPath(st, path) ==
  IF ~dbHas(st, path) THEN [err |-> "ENOENT", value |-> <<>>]
  ELSE IF st[path].type # "file" THEN [err |-> "EISDIR", value |-> <<>>]
  ELSE [err |-> "OK", value |-> <<st[path].content>>]

\* readFile(path): the error thrown, or the content of the entry
readFile(st, path) ==
  LET normalizedPath == normalizePath(path) IN
  IF ~dbHas(st, normalizedPath) THEN [err |-> "ENOENT", value |-> <<>>]
  ELSE IF st[normalizedPath].type # "file" THEN [err |-> "EISDIR", value |-> <<>>]
  ELSE [err |-> "OK", value |-> <<st[normalizedPath].content>>]

\* readdir(path): the error thrown, or the sorted child names
readdir(st, path) ==
  LET normalizedPath == normalizePath(path) IN
  IF ~dbHas(st, normalizedPath) THEN [err |-> "ENOENT", value |-> <<>>]
  ELSE IF st[normalizedPath].type # "directory" THEN [err |-> "ENOTDIR", value |-> <<>>]
  ELSE [err |-> "OK", value |-> readdirNames(st, normalizedPath)]

writeFile(st, path, content, t) ==
  LET normalizedPath == normalizePath(path)
      dirPath == dirname(normalizedPath)
      buffer == IF content.type = "string" THEN Bytes(encode(content.data)) ELSE content
  IN IF dirPath # <<>> /\ ~exists(st, dirPath)
     THEN Outcome(st, <<>>, "ENOENT")
     ELSE Outcome(dbPut(st, FileEntry(normalizedPath, buffer, "file", t)),
                  <<ChangeEvent(normalizedPath, "change")>>,
                  "OK")

\* the loop of mkdir over parts[i..], currentPath being the path built so far
RECURSIVE mkdirLoop(_, _, _, _, _, _, _)
mkdirLoop(st, events, parts, i, currentPath, recursive, t) ==
  IF i > Len(parts) THEN Outcome(st, events, "OK")
  ELSE LET nextPath == currentPath \o <<SLASH>> \o parts[i] IN
       IF exists(st, nextPath)
       THEN mkdirLoop(st, events, parts, i + 1, nextPath, recursive, t)
       ELSE IF ~recursive /\ i < Len(parts)
       THEN Outcome(st, events, "ENOENT")
       ELSE mkdirLoop(dbPut(st, FileEntry(nextPath, NoContent, "directory", t)),
                      Append(events, ChangeEvent(nextPath, "add")),
                      parts, i + 1, nextPath, recursive, t)

\* a mkdir that goes to the loop without looking for an existing entry first
mkdir_NoExistsCheck(st, path, recursive, t) ==
  mkdirLoop(st, <<>>, splitParts(normalizePath(path), 1, <<>>), 1, <<>>, recursive, t)

mkdir(st, path, recursive, t) ==
  LET normalizedPath == normalizePath(path) IN
  IF exists(st, normalizedPath)
  THEN IF recursive
       THEN IF statOk(st, normalizedPath) /\ st[normalizedPath].type = "directory"
            THEN Outcome(st, <<>>, "OK")
            ELSE Outcome(st, <<>>, "EEXIST")
       ELSE Outcome(st, <<>>, "EEXIST")
  ELSE mkdirLoop(st, <<>>, splitParts(normalizedPath, 1, <<>>), 1, <<>>, recursive, t)

\* an unlink that deletes whatever entry it finds
unlink_NoTypeCheck(st, path) ==
  LET normalizedPath == normalizePath(path) IN
  IF ~dbHas(st, normalizedPath) THEN Outcome(st, <<>>, "ENOENT")
  ELSE Outcome(dbDelete(st, normalizedPath),
               <<ChangeEvent(normalizedPath, "unlink")>>,
               "OK")

unlink(st, path) ==
  LET normalizedPath == normalizePath(path) IN
  IF ~dbHas(st, normalizedPath) THEN Outcome(st, <<>>, "ENOENT")
  ELSE IF st[normalizedPath].type # "file" THEN Outcome(st, <<>>, "EISDIR")
  ELSE Outcome(dbDelete(st, normalizedPath),
               <<ChangeEvent(normalizedPath, "unlink")>>,
               "OK")

\* a removal of the directory entry whatever lies beneath it
rmdir_NoEmptyCheck(st, path, recursive) ==
  LET normalizedPath == normalizePath(path) IN
  IF ~dbHas(st, normalizedPath) THEN Outcome(st, <<>>, "ENOENT")
  ELSE IF st[normalizedPath].type # "directory" THEN Outcome(st, <<>>, "ENOTDIR")
  ELSE Outcome(dbDelete(st, normalizedPath),
               <<ChangeEvent(normalizedPath, "unlink")>>,
               "OK")

RECURSIVE rmdir(_, _, _)
RECURSIVE rmdirChildren(_, _, _, _, _)

\* the loop of a recursive rmdir over children[i..]; childPath is looked up in the
\* store as built (not normalised), and the first failing child ends the loop
rmdirChildren(st, events, normalizedPath, children, i) ==
  IF i > Len(children) THEN Outcome(st, events, "OK")
  ELSE LET childPath == normalizedPath \o <<SLASH>> \o children[i]
           r == IF dbHas(st, childPath) /\ st[childPath].type = "directory"
                THEN rmdir(st, childPath, TRUE)
                ELSE unlink(st, childPath)
       IN IF r.err # "OK"
          THEN Outcome(r.store, events \o r.events, r.err)
          ELSE rmdirChildren(r.store, events \o r.events, normalizedPath, children, i + 1)

rmdir(st, path, recursive) ==
  LET normalizedPath == normalizePath(path) IN
  IF ~dbHas(st, normalizedPath) THEN Outcome(st, <<>>, "ENOENT")
  ELSE IF st[normalizedPath].type # "directory" THEN Outcome(st, <<>>, "ENOTDIR")
  ELSE LET children == readdirNames(st, normalizedPath) IN
       IF Len(children) > 0 /\ ~recursive THEN Outcome(st, <<>>, "ENOTEMPTY")
       ELSE LET r == IF recursive
                     THEN rmdirChildren(st, <<>>, normalizedPath, children, 1)
                     ELSE Outcome(st, <<>>, "OK")
            IN IF r.err # "OK" THEN r
               ELSE Outcome(dbDelete(r.store, normalizedPath),
                            Append(r.events, ChangeEvent(normalizedPath, "unlink")),
                            "OK")

----------------------------------------------------------------------------
(* DevEnvironment.mount: a FileSystemTree written through the file system  *)

\* the entries of a FileSystemTree, in Object.entries order
Leaf(key, content) == [key |-> key, kind |-> "leaf", content |-> content, entries |-> <<>>]

Group(key, entries) == [key |-> key, kind |-> "group", content |-> NoContent, entries |-> entries]

\* one file-system call made by mount, with its outcome
MountStep(call, r) == [call |-> call, err |-> r.err, events |-> r.events]

\* mountFiles(tree, basePath) from entry i on: the store it leaves, the calls it
\* made and the error of the first call that threw
RECURSIVE mountFiles(_, _, _, _, _, _)
mountFiles(st, log, tree, i, basePath, t) ==
  IF i > Len(tree) THEN [store |-> st, log |-> log, err |-> "OK"]
  ELSE LET node == tree[i]
           fullPath == IF basePath # <<>> THEN basePath \o <<SLASH>> \o node.key ELSE node.key
       IN IF node.kind = "leaf"
          THEN LET r == writeFile(st, fullPath, node.content, t)
                   done == Append(log, MountStep(FsCall("writeFile", fullPath, FALSE, node.content), r))
               IN IF r.err # "OK" THEN [store |-> r.store, log |-> done, err |-> r.err]
                  ELSE mountFiles(r.store, done, tree, i + 1, basePath, t)
          ELSE LET r == mkdir(st, fullPath, TRUE, t)
                   done == Append(log, MountStep(FsCall("mkdir", fullPath, TRUE, NoContent), r))
               IN IF r.err # "OK" THEN [store |-> r.store, log |-> done, err |-> r.err]
                  ELSE LET inner == mountFiles(r.store, done, node.entries, 1, fullPath, t)
                       IN IF inner.err # "OK" THEN inner
                          ELSE mountFiles(inner.store, inner.log, tree, i + 1, basePath, t)

\* one mount(files) invocation
MountCall(files, r) == [files |-> files, err |-> r.err, log |-> r.log]

----------------------------------------------------------------------------
(* watch(): handlers on the shared 'file:change' emitter                   *)

\* one watch() invocation: the path its handler compares with, how often the
\* function it returned has been called, and the callback invocations made
\* during the last operation
WatchCall(path) == [path |-> normalizePath(path), offs |-> 0, calls |-> <<>>]

NoWatches == [made |-> <<>>, handlers |-> <<>>]

\* the handler of watch(): the callback invocation it makes for one event
handler(normalizedPath, event) ==
  LET changedPath == event.path IN
  IF changedPath = normalizedPath \/ startsWith(changedPath, normalizedPath \o <<SLASH>>)
  THEN <<[type |-> event.type,
          filename |-> IF changedPath = normalizedPath
                       THEN basename(changedPath)
                       ELSE sliceFrom(changedPath, Len(normalizedPath) + 1)]>>
  ELSE <<>>

\* the invocations the handler makes over the events of one operation
RECURSIVE handlerCalls(_, _)
handlerCalls(normalizedPath, events) ==
  IF events = <<>> THEN <<>>
  ELSE handler(normalizedPath, Head(events)) \o handlerCalls(normalizedPath, Tail(events))

\* emitter.emit('file:change', e) for every event of one operation: each
\* handler on the list is called with each event
emit(W, events) ==
  [W EXCEPT !.made =
     [id \in DOMAIN W.made |->
        [W.made[id] EXCEPT !.calls =
           IF \E h \in DOMAIN W.handlers : W.handlers[h] = id
           THEN handlerCalls(W.made[id].path, events)
           ELSE <<>>]]]

\* Array.prototype.indexOf
indexOf(list, x) ==
  IF \E i \in DOMAIN list : list[i] = x
  THEN (CHOOSE i \in DOMAIN list : list[i] = x /\ \A j \in 1..(i - 1) : list[j] # x) - 1
  ELSE -1

\* handlers.splice(start, 1) for a start that is not negative
spliceOne(list, start) ==
  IF start >= Len(list) THEN list
  ELSE SubSeq(list, 1, start) \o SubSeq(list, start + 2, Len(list))

\* an off that splices at indexOf(handler) as it is: splice(-1, 1) removes the
\* last handler
off_NoUnsignedShift(handlers, id) ==
  LET i == indexOf(handlers, id)
  IN spliceOne(handlers, IF i < 0 THEN Len(handlers) + i ELSE i)

\* emitter.off('file:change', handler): handlers.splice(indexOf(handler) >>> 0, 1);
\* -1 >>> 0 is 4294967295, a start past the end of every list, where splice
\* removes nothing
off(handlers, id) ==
  LET i == indexOf(handlers, id)
  IN IF i < 0 THEN handlers ELSE spliceOne(handlers, i)

----------------------------------------------------------------------------
(* File-system actions                                                     *)

FsApply(call, r) ==
  /\ fsReady
  /\ store' = r.store
  /\ fsOp' = call
  /\ fsResult' = r.err
  /\ fsEvents' = r.events
  /\ fsRead' = <<>>
  /\ watches' = emit(watches, r.events)
  /\ UNCHANGED <<fsReady, now, norm, pmVars, env>>

FsInit ==
  /\ store = <<>>
  /\ fsReady = FALSE
  /\ now = 0
  /\ fsOp = FsCall("none", <<>>, FALSE, NoContent)
  /\ fsResult = "OK"
  /\ fsEvents = <<>>
  /\ fsRead = <<>>
  /\ norm = NormCall(<<>>)
  /\ watches = NoWatches

\* FileSystemImpl.initialize(): stat('/') fails on a store without a root entry,
\* which is then put
initialize(st, t) ==
  IF statOk(st, ROOT) THEN st ELSE dbPut(st, FileEntry(ROOT, NoContent, "directory", t))

Initialize ==
  /\ ~fsReady
  /\ store' = initialize(store, now)
  /\ fsReady' = TRUE
  /\ fsOp' = FsCall("initialize", <<>>, FALSE, NoContent)
  /\ fsResult' = "OK"
  /\ fsEvents' = <<>>
  /\ fsRead' = <<>>
  /\ watches' = emit(watches, <<>>)
  /\ UNCHANGED <<now, norm, pmVars, env>>

WriteFile(path, content) ==
  FsApply(FsCall("writeFile", path, FALSE, content), writeFile(store, path, content, now))

Mkdir(path, recursive) ==
  FsApply(FsCall("mkdir", path, recursive, NoContent), mkdir(store, path, recursive, now))

Rmdir(path, recursive) ==
  FsApply(FsCall("rmdir", path, recursive, NoContent), rmdir(store, path, recursive))

Unlink(path) ==
  FsApply(FsCall("unlink", path, FALSE, NoContent), unlink(store, path))

\* watch(path, callback): a new handler is put on the emitter
Watch(path) ==
  /\ Len(watches.made) < MaxWatches
  /\ watches' = [made |-> Append(watches.made, WatchCall(path)),
                 handlers |-> Append(watches.handlers, Len(watches.made) + 1)]
  /\ UNCHANGED <<store, fsReady, now, fsOp, fsResult, fsEvents, fsRead, norm, pmVars, env>>

\* the calls made, over all watches, of the functions watch() returned
offsMade == LET RECURSIVE sum(_)
                sum(id) == IF id = 0 THEN 0 ELSE watches.made[id].offs + sum(id - 1)
            IN sum(Len(watches.made))

\* the function returned by watch number id is called
Unwatch(id) ==
  /\ offsMade < MaxWatches
  /\ watches' = [made |-> [watches.made EXCEPT ![id].offs = @ + 1],
                 handlers |-> off(watches.handlers, id)]
  /\ UNCHANGED <<store, fsReady, now, fsOp, fsResult, fsEvents, fsRead, norm, pmVars, env>>

ReadFile(path) ==
  LET r == readFile(store, path) IN
  /\ fsReady
  /\ fsOp' = FsCall("readFile", path, FALSE, NoContent)
  /\ fsResult' = r.err
  /\ fsEvents' = <<>>
  /\ fsRead' = r.value
  /\ watches' = emit(watches, <<>>)
  /\ UNCHANGED <<store, fsReady, now, norm, pmVars, env>>

\* normalizePath(path), and normalizePath of its result
NormalizePath ==
  /\ norm.result = <<>>
  /\ norm' = [norm EXCEPT !.result = <<normalizePath(norm.path)>>,
                          !.again = <<normalizePath(normalizePath(norm.path))>>]
  /\ UNCHANGED <<store, fsReady, now, fsOp, fsResult, fsEvents, fsRead, watches, pmVars, env>>

\* the clock source advances between calls (it never goes back)
Tick ==
  /\ now < MaxClock
  /\ now' = now + 1
  /\ UNCHANGED <<store, fsReady, fsOp, fsResult, fsEvents, fsRead, norm, watches, pmVars, env>>

\* No operation reads an entry's modified field, so the shape of the store does
\* not depend on the clock: FsNext leaves the clock where it is.
FsNext ==
  \/ Initialize
  \/ \E path \in PathInputs, content \in Contents : WriteFile(path, content)
  \/ \E path \in PathInputs, recursive \in BOOLEAN : Mkdir(path, recursive)
  \/ \E path \in PathInputs, recursive \in BOOLEAN : Rmdir(path, recursive)
  \/ \E path \in PathInputs : Unlink(path)

----------------------------------------------------------------------------
(* Process manager: data                                                   *)

\* an optional number: exitCode?: number
Undefined == <<>>
Defined(v) == <<v>>

\* exit codes the execution context reports, and the errors a bridge call rejects with
ExitCodes == {0, 1}
BridgeErrors == {"RemoteCallFailed"}

EmptyMap == [k \in {} |-> 0]

mapSet(m, key, value) == [k \in (DOMAIN m) \cup {key} |-> IF k = key THEN value ELSE m[k]]

mapDelete(m, key) == [k \in (DOMAIN m) \ {key} |-> m[k]]

\* Array.from(map.values()): handles in the order of their construction
RECURSIVE ascending(_)
ascending(S) ==
  IF S = {} THEN <<>>
  ELSE LET least == CHOOSE x \in S : \A y \in S : x <= y
       IN <<least>> \o ascending(S \ {least})

listProcesses == ascending({ processes[pid] : pid \in DOMAIN processes })

\* a spawn() invocation: the pid it took, the bridge's reply, how the call ended
SpawnCall(pid) == [pid |-> pid, reply |-> "none", result |-> "pending", handle |-> 0]

\* createReadableStream(port): the ReadableStream with its default controller
\* (state, close requested, queued chunks), what its reader has read, the
\* messages its port has dispatched, the errors thrown out of onmessage, and
\* how often the stream went to 'closed'
ReadableStream ==
  [state |-> "readable", closeRequested |-> FALSE, queue |-> <<>>,
   read |-> <<>>, received |-> <<>>, thrown |-> <<>>, closes |-> 0, portOpen |-> TRUE]

\* ReadableStreamDefaultControllerCanCloseOrEnqueue
canCloseOrEnqueue(s) == s.state = "readable" /\ ~s.closeRequested

\* port.onmessage: controller.enqueue for a data message, controller.close for
\* a close message; both throw a TypeError once the stream is closed or its
\* close has been requested
onmessage(s, type, buffer) ==
  LET got == [s EXCEPT !.received = Append(@, [type |-> type, buffer |-> buffer])] IN
  IF ~canCloseOrEnqueue(s) THEN [got EXCEPT !.thrown = Append(@, "TypeError")]
  ELSE IF type = "data" THEN [got EXCEPT !.queue = Append(@, buffer)]
  ELSE IF s.queue = <<>>
       THEN [got EXCEPT !.closeRequested = TRUE, !.state = "closed", !.closes = @ + 1]
       ELSE [got EXCEPT !.closeRequested = TRUE]

\* reader.read() with a chunk queued: the chunk is handed over, and the stream
\* closes when that empties the queue of a stream asked to close
pull(s) ==
  LET rest == Tail(s.queue) IN
  IF rest = <<>> /\ s.closeRequested
  THEN [s EXCEPT !.read = Append(@, Head(s.queue)), !.queue = rest,
                 !.state = "closed", !.closes = @ + 1]
  ELSE [s EXCEPT !.read = Append(@, Head(s.queue)), !.queue = rest]

\* reader.cancel() on a readable stream: the stream closes, its queue is reset
\* and the source's cancel() closes the port
cancel(s) ==
  [s EXCEPT !.state = "closed", !.closes = @ + 1, !.queue = <<>>, !.portOpen = FALSE]

\* createWritableStream(port): the WritableStream (state, close requested,
\* chunks queued for the sink), the chunks its writer had accepted, the writer
\* calls it refused, and the messages posted on its port
WritableStream ==
  [state |-> "writable", closeRequested |-> FALSE, queue |-> <<>>,
   written |-> <<>>, refused |-> 0, sent |-> <<>>, portOpen |-> TRUE]

\* writer.write(chunk): queued for the sink; refused with a TypeError once the
\* stream is closed, closing or errored
writerWrite(s, chunk) ==
  IF s.state = "writable" /\ ~s.closeRequested
  THEN [s EXCEPT !.queue = Append(@, chunk), !.written = Append(@, chunk)]
  ELSE [s EXCEPT !.refused = @ + 1]

\* writer.close(): the close is queued behind the chunks; refused like a write
writerClose(s) ==
  IF s.state = "writable" /\ ~s.closeRequested
  THEN [s EXCEPT !.closeRequested = TRUE]
  ELSE [s EXCEPT !.refused = @ + 1]

\* writer.abort(): the stream is errored and what is still queued is discarded;
\* the sink has no abort(), so nothing is posted and the port stays as it is
writerAbort(s) ==
  IF s.state = "writable" THEN [s EXCEPT !.state = "errored", !.queue = <<>>] ELSE s

\* the sink's write(chunk): one data message on the port
write(s, chunk) ==
  [s EXCEPT !.sent = Append(@, [type |-> "data", buffer |-> chunk])]

\* a sink close() that posts the close message and keeps the port open
close_KeepsPort(s) ==
  [s EXCEPT !.sent = Append(@, [type |-> "close", buffer |-> 0])]

\* the sink's close(): one close message on the port, then port.close()
close(s) ==
  [s EXCEPT !.sent = Append(@, [type |-> "close", buffer |-> 0]), !.portOpen = FALSE]

\* the stream hands the head of its queue to the sink, and calls the sink's
\* close() when a close was requested and the queue is empty
advanceQueue(s) ==
  IF s.queue # <<>> THEN [write(s, Head(s.queue)) EXCEPT !.queue = Tail(s.queue)]
  ELSE [close(s) EXCEPT !.state = "closed"]

\* new ProcessImpl(pid, ...): status 'running', no exit code, monitorProcess()
\* started, no error thrown into it by a subscriber yet
ProcessImpl(pid) ==
  [pid |-> pid, status |-> "running", exitCode |-> Undefined,
   onExit |-> FALSE, monitor |-> "waiting", thrown |-> <<>>,
   stdout |-> ReadableStream, stderr |-> ReadableStream, stdin |-> WritableStream]

SpawnEvent(pid) == [type |-> "process:spawn", pid |-> pid, exitCode |-> Undefined]
ExitEvent(pid, exitCode) == [type |-> "process:exit", pid |-> pid, exitCode |-> Defined(exitCode)]

\* a kill invocation: who made it, for which pid / handle, whether a killProcess
\* request went to the bridge, and how the call ended
KillCall(via, pid, h, sent, state, error) ==
  [via |-> via, pid |-> pid, h |-> h, sent |-> sent, state |-> state, error |-> error]

\* ProcessImpl.kill() up to its await: returns at once unless status is 'running'
processKill(h, via) ==
  IF procs[h].status # "running"
  THEN KillCall(via, procs[h].pid, h, FALSE, "resolved", "none")
  ELSE KillCall(via, procs[h].pid, h, TRUE, "pending", "none")

\* `this.nextPid` read without the increment
allocatePid_NoIncrement(np) == [pid |-> np, next |-> np]

\* `this.nextPid++`
allocatePid(np) == [pid |-> np, next |-> np + 1]

\* an exit callback that publishes process:exit and leaves the live set alone
onExit_NoDeregister(pid, exitCode) ==
  /\ processes' = processes
  /\ pmEvents' = Append(pmEvents, ExitEvent(pid, exitCode))

\* the exit callback installed by spawn(): deregister, then publish process:exit
onExit(pid, exitCode) ==
  /\ processes' = mapDelete(processes, pid)
  /\ pmEvents' = Append(pmEvents, ExitEvent(pid, exitCode))

\* `this.onExit?.(exitCode)`
callOnExit(h, exitCode) ==
  IF procs[h].onExit THEN onExit(procs[h].pid, exitCode)
  ELSE UNCHANGED <<processes, pmEvents>>

\* Promise.race in place of Promise.all: settled by the first kill that settles
settleKillAll_First(ka, ks) ==
  IF ka.state # "pending" THEN ka
  ELSE IF \E k \in ka.kills : ks[k].state = "rejected" THEN [ka EXCEPT !.state = "rejected"]
  ELSE IF ka.kills = {} \/ \E k \in ka.kills : ks[k].state = "resolved"
       THEN [ka EXCEPT !.state = "resolved"]
  ELSE ka

\* Promise.all over the kill promises of a killAll(): fulfilled when every one is,
\* rejected as soon as one is
settleKillAll(ka, ks) ==
  IF ka.state # "pending" THEN ka
  ELSE IF \E k \in ka.kills : ks[k].state = "rejected" THEN [ka EXCEPT !.state = "rejected"]
  ELSE IF \A k \in ka.kills : ks[k].state = "resolved" THEN [ka EXCEPT !.state = "resolved"]
  ELSE ka

----------------------------------------------------------------------------
(* Orchestrator (DevEnvironment): data                                     *)

\* an initialize() that registers the plugins before it loads the features
Steps_PluginsBeforeFeatures ==
  <<"initializeDatabase", "initializeWorker", "initializeFileSystem",
    "initializeProcessManager", "initializePlugins", "loadRequestedFeatures">>

\* the six awaited calls of initialize(), in the order of its try block
Steps ==
  <<"initializeDatabase", "initializeWorker", "initializeFileSystem",
    "initializeProcessManager", "loadRequestedFeatures", "initializePlugins">>

\* the configurations the environment is constructed with: the features enabled
\* (in the order of Object.entries, 'fileSystem' left out) and the names of the
\* plugins handed in
Configs == { [features |-> <<"terminal">>, plugins |-> <<"bundler">>] }

Await(op, arg) == [op |-> op, arg |-> arg]

\* what each step awaits, one after the other
stepAwaits(config, step) ==
  CASE step = "initializeDatabase" -> <<Await("openDB", "none")>>
    [] step = "initializeWorker" ->
         <<Await("loadAsset", "none"), Await("workerInitialize", "none")>>
    [] step = "initializeFileSystem" -> <<Await("fsInitialize", "none")>>
    [] step = "initializeProcessManager" -> <<>>
    [] step = "loadRequestedFeatures" ->
         [j \in 1..Len(config.features) |-> Await("loadFeature", config.features[j])]
    [] step = "initializePlugins" ->
         [j \in 1..Len(config.plugins) |-> Await("registerPlugin", j)]

\* who made a loadFeature / registerPlugin call: the user, initialize() number
\* idx, or loadFeature call number idx
By(kind, idx) == [kind |-> kind, idx |-> idx]

NoError == <<>>
Failed(what) == <<"failed", what>>

\* an initialize() invocation: the step and the await it is at, how it ended,
\* the steps it started and completed, the callbacks it made
InitCall ==
  [step |-> 1, await |-> 1, state |-> "running", error |-> NoError, log |-> <<>>,
   onReady |-> 0, onError |-> <<>>]

LoadCall(feature, by, state, error) ==
  [feature |-> feature, by |-> by, state |-> state, error |-> error]

\* a registerPlugin invocation; plugin is the object registered: the config's
\* plugin number k, or the BundlerPlugin made for this call
RegCall(name, plugin, by, state, error) ==
  [name |-> name, plugin |-> plugin, by |-> by, state |-> state, error |-> error]

\* a dispose() invocation: the registry entry whose destroy() it awaits, its
\* killAll(), what it has torn down so far, the registry keys and the widgets
\* there were at the call, whether the environment was initialized at the call
DisposeCall(names, widgets, initialized) ==
  [state |-> "destroying", next |-> 1, killAll |-> 0, error |-> NoError, log |-> <<>>,
   names |-> names, widgets |-> widgets, initialized |-> initialized]

EnvEvent(topic, by, error) == [topic |-> topic, by |-> by, error |-> error]

\* the message-based bridge of createMockWorkerApi: the request counter, the
\* pending calls by request id, every call made with how its promise ended and
\* by which message, and the messages the worker has posted
NoWorkerApi ==
  [made |-> FALSE, messageId |-> 0, pendingCalls |-> EmptyMap, calls |-> <<>>,
   received |-> <<>>]

BridgeCall(id, method) ==
  [id |-> id, method |-> method, state |-> "pending", value |-> Undefined,
   settles |-> 0, by |-> 0]

\* a message posted by the worker: error is Undefined when the field is absent
Response(id, result, error) == [id |-> id, result |-> result, error |-> error]

\* callMethod(method, ...args): `messageId++`, pendingCalls.set, postMessage
callMethod(b, method) ==
  [b EXCEPT !.messageId = @ + 1,
            !.pendingCalls = mapSet(@, b.messageId, Len(b.calls) + 1),
            !.calls = Append(@, BridgeCall(b.messageId, method))]

\* resolve / reject of a promise: the first one settles it, later ones do nothing
settle(call, state, value, by) ==
  IF call.state # "pending" THEN call
  ELSE [call EXCEPT !.state = state, !.value = value, !.settles = @ + 1, !.by = by]

\* `if (error)`: undefined and the empty string are falsy
truthy(error) == error # Undefined /\ error # Defined("")

\* the 'message' listener of the bridge: the pending call of the echoed id is
\* removed and rejected when `error` is truthy, resolved with `result` otherwise
onResponse(b, msg) ==
  LET got == [b EXCEPT !.received = Append(@, msg)] IN
  IF msg.id \notin DOMAIN b.pendingCalls THEN got
  ELSE [got EXCEPT !.pendingCalls = mapDelete(@, msg.id),
                   !.calls[b.pendingCalls[msg.id]] =
                      IF truthy(msg.error)
                      THEN settle(@, "rejected", msg.error, Len(got.received))
                      ELSE settle(@, "resolved", Defined(msg.result), Len(got.received))]

\* `new DevEnvironment(config)` not yet called
NoEnvironment ==
  [config |-> [features |-> <<>>, plugins |-> <<>>], constructed |-> FALSE,
   initialized |-> FALSE, db |-> "none", worker |-> "none", processManager |-> FALSE,
   terminal |-> "none", editor |-> "none", plugins |-> <<>>,
   inits |-> <<>>, loads |-> <<>>, regs |-> <<>>, disposes |-> <<>>, mounts |-> <<>>,
   events |-> <<>>, workerApi |-> NoWorkerApi]

\* Map.has / Map.set on the plugin registry, a list of entries in insertion order
pluginsHas(plugins, name) == \E j \in DOMAIN plugins : plugins[j].name = name

pluginsSet(plugins, name, plugin) ==
  IF pluginsHas(plugins, name)
  THEN [j \in DOMAIN plugins |->
          IF plugins[j].name = name THEN [name |-> name, plugin |-> plugin] ELSE plugins[j]]
  ELSE Append(plugins, [name |-> name, plugin |-> plugin])

\* a catch block that publishes 'error' and rethrows without calling onError
failInit_NoCallback(E, i, error) ==
  [E EXCEPT !.inits[i].state = "rejected",
            !.inits[i].error = error,
            !.events = Append(@, EnvEvent("error", i, error))]

\* the catch block of initialize(): publish 'error', call onError, rethrow
failInit(E, i, error) ==
  [E EXCEPT !.inits[i].state = "rejected",
            !.inits[i].error = error,
            !.inits[i].onError = Append(@, error),
            !.events = Append(@, EnvEvent("error", i, error))]

\* the end of the try block: initialized, 'ready' published, onReady called
finishInit(E, i) ==
  [E EXCEPT !.initialized = TRUE,
            !.events = Append(@, EnvEvent("ready", i, NoError)),
            !.inits[i].state = "resolved",
            !.inits[i].onReady = @ + 1]

\* what a step does before its first await
stepEntry(E, step) ==
  IF step = "initializeProcessManager" THEN [E EXCEPT !.processManager = TRUE] ELSE E

RECURSIVE startStep(_, _), startAwait(_, _), resume(_, _, _)

\* the caller `by` of a call that has settled with outcome goes on: a
\* loadFeature call returns or throws to its own caller, an initialize() goes
\* to its next await or to its catch block
nextAwait(E, i) ==
  LET c == E.inits[i] IN
    IF c.await < Len(stepAwaits(E.config, Steps[c.step]))
    THEN startAwait([E EXCEPT !.inits[i].await = c.await + 1], i)
    ELSE startStep([E EXCEPT !.inits[i].log = Append(@, <<"done", Steps[c.step]>>),
                             !.inits[i].step = c.step + 1,
                             !.inits[i].await = 1], i)

resume(E, by, outcome) ==
  CASE by.kind = "user" -> E
    [] by.kind = "load" ->
         resume([E EXCEPT !.loads[by.idx].state =
                            IF outcome = NoError THEN "resolved" ELSE "rejected",
                          !.loads[by.idx].error = outcome],
                E.loads[by.idx].by, outcome)
    [] by.kind = "init" ->
         IF outcome = NoError THEN nextAwait(E, by.idx) ELSE failInit(E, by.idx, outcome)

\* registerPlugin(plugin) up to its await: the has() check, then plugin.initialize
registerPlugin(E, name, plugin, by) ==
  IF pluginsHas(E.plugins, name)
  THEN resume([E EXCEPT !.regs = Append(@, RegCall(name, plugin, by, "rejected",
                                                     Failed("AlreadyRegistered")))],
              by, Failed("AlreadyRegistered"))
  ELSE [E EXCEPT !.regs = Append(@, RegCall(name, plugin, by, "initializing", NoError))]

\* loadFeature(feature) up to its await: the dynamic import, or the default branch
loadFeature(E, feature, by) ==
  IF feature \in {"terminal", "editor", "bundler"}
  THEN [E EXCEPT !.loads = Append(@, LoadCall(feature, by, "importing", NoError))]
  ELSE resume([E EXCEPT !.loads = Append(@, LoadCall(feature, by, "rejected",
                                                      Failed("UnknownFeature")))],
              by, Failed("UnknownFeature"))

\* initialize() number i calls what it awaits next
startAwait(E, i) ==
  LET a == stepAwaits(E.config, Steps[E.inits[i].step])[E.inits[i].await] IN
    CASE a.op = "loadFeature" -> loadFeature(E, a.arg, By("init", i))
      [] a.op = "registerPlugin" ->
           registerPlugin(E, E.config.plugins[a.arg], <<"config", a.arg>>, By("init", i))
      [] OTHER -> E

\* initialize() number i enters its next step, or the end of the try block
startStep(E, i) ==
  LET c == E.inits[i] IN
    IF c.step > Len(Steps) THEN finishInit(E, i)
    ELSE LET E1 == stepEntry([E EXCEPT !.inits[i].log = Append(@, <<"start", Steps[c.step]>>)],
                             Steps[c.step])
         IN IF stepAwaits(E.config, Steps[c.step]) = <<>>
            THEN startStep([E1 EXCEPT !.inits[i].log = Append(@, <<"done", Steps[c.step]>>),
                                      !.inits[i].step = c.step + 1], i)
            ELSE startAwait(E1, i)

\* what initialize() number i awaits now
awaited(E, i) == stepAwaits(E.config, Steps[E.inits[i].step])[E.inits[i].await]

\* the awaited call of initialize() number i resolves: its effect on the
\* environment object (the root entry of fsInitialize is put by the action)
awaitDone(E, op) ==
  CASE op = "openDB" -> [E EXCEPT !.db = "open"]
    [] op = "loadAsset" -> [E EXCEPT !.worker = "created"]
    [] op = "workerInitialize" -> [E EXCEPT !.worker = "ready"]
    [] OTHER -> E

RECURSIVE runDispose(_, _)

\* dispose() number d from the registry entry it is at: call destroy() on it and
\* await; after the last entry destroy the widgets and go on to killAll()
runDispose(E, d) ==
  LET c == E.disposes[d] IN
    IF c.next <= Len(E.plugins)
    THEN [E EXCEPT !.disposes[d].log = Append(@, <<"destroy", E.plugins[c.next]>>)]
    ELSE LET t == IF E.terminal = "none" THEN <<>> ELSE <<<<"terminal", "destroy">>>>
             e == IF E.editor = "none" THEN <<>> ELSE <<<<"editor", "destroy">>>>
             E1 == [E EXCEPT !.terminal = IF @ = "none" THEN @ ELSE "destroyed",
                             !.editor = IF @ = "none" THEN @ ELSE "destroyed",
                             !.disposes[d].log = @ \o t \o e]
         IN IF E1.processManager
            THEN [E1 EXCEPT !.disposes[d].state = "callKillAll"]
            ELSE [E1 EXCEPT !.disposes[d].state = "rejected",
                            !.disposes[d].error = Failed("TypeError")]

\* the tail of dispose(): terminate the worker, close the store, clear the flag
finishDispose(E, d) ==
  [E EXCEPT !.worker = IF @ = "none" THEN @ ELSE "terminated",
            !.db = IF @ = "none" THEN @ ELSE "closed",
            !.initialized = FALSE,
            !.disposes[d].state = "resolved",
            !.disposes[d].log = @ \o (IF E.worker = "none" THEN <<>> ELSE <<<<"worker", "terminate">>>>)
                                  \o (IF E.db = "none" THEN <<>> ELSE <<<<"db", "close">>>>)]

RECURSIVE afterKillAllFrom_NoAwait(_, _, _)

\* a dispose() that calls killAll() and goes on without awaiting it
afterKillAllFrom_NoAwait(E, kas, d) ==
  IF d > Len(E.disposes) THEN E
  ELSE afterKillAllFrom_NoAwait(
         IF E.disposes[d].state = "killing" THEN finishDispose(E, d) ELSE E, kas, d + 1)

RECURSIVE afterKillAllFrom(_, _, _)

\* every dispose() from number d on whose killAll() has settled goes on
afterKillAllFrom(E, kas, d) ==
  IF d > Len(E.disposes) THEN E
  ELSE LET c == E.disposes[d]
           E1 == IF c.state # "killing" THEN E
                 ELSE IF kas[c.killAll].state = "resolved" THEN finishDispose(E, d)
                 ELSE IF kas[c.killAll].state = "rejected"
                      THEN [E EXCEPT !.disposes[d].state = "rejected",
                                     !.disposes[d].error = Failed("killAll")]
                 ELSE E
       IN afterKillAllFrom(E1, kas, d + 1)

afterKillAll(E, kas) == afterKillAllFrom(E, kas, 1)

----------------------------------------------------------------------------

(* Process manager: actions                                                *)

ownKills == { k \in DOMAIN kills : kills[k].via # "killAll" }

PmInit ==
  /\ nextPid = 1
  /\ spawnCalls = <<>>
  /\ procs = <<>>
  /\ processes = EmptyMap
  /\ kills = <<>>
  /\ killAlls = <<>>
  /\ waits = <<>>
  /\ pmEvents = <<>>

\* the calls made so far on the manager and on its handles
callsMade ==
  Len(spawnCalls) + Cardinality(ownKills) + Len(waits)
    + Cardinality({ a \in DOMAIN killAlls : killAlls[a].via = "manager" })

\* spawn() up to its await: the pid is taken, the spawnProcess request is sent
Spawn ==
  /\ Len(spawnCalls) < MaxSpawns
  /\ callsMade < MaxCalls
  /\ LET a == allocatePid(nextPid) IN
       /\ nextPid' = a.next
       /\ spawnCalls' = Append(spawnCalls, SpawnCall(a.pid))
  /\ UNCHANGED <<procs, processes, kills, killAlls, pmEvents, waits, fsVars, env>>

\* a spawn() that returns the handle without installing the exit callback
SpawnResolve_NoOnExit(i) ==
  /\ spawnCalls[i].result = "pending"
  /\ procs' = Append(procs, ProcessImpl(spawnCalls[i].pid))
  /\ processes' = mapSet(processes, spawnCalls[i].pid, Len(procs) + 1)
  /\ pmEvents' = Append(pmEvents, SpawnEvent(spawnCalls[i].pid))
  /\ spawnCalls' = [spawnCalls EXCEPT ![i] =
                      [@ EXCEPT !.reply = "ok", !.result = "resolved",
                                !.handle = Len(procs) + 1]]
  /\ UNCHANGED <<nextPid, kills, killAlls, waits, fsVars, env>>

\* the bridge answers spawnProcess; spawn() constructs the handle (which starts
\* its monitor), registers it, publishes process:spawn and installs onExit
SpawnResolve(i) ==
  /\ spawnCalls[i].result = "pending"
  /\ LET pid == spawnCalls[i].pid
         h == Len(procs) + 1
     IN /\ procs' = Append(procs, [ProcessImpl(pid) EXCEPT !.onExit = TRUE])
        /\ processes' = mapSet(processes, pid, h)
        /\ pmEvents' = Append(pmEvents, SpawnEvent(pid))
        /\ spawnCalls' = [spawnCalls EXCEPT ![i] =
                            [@ EXCEPT !.reply = "ok", !.result = "resolved", !.handle = h]]
  /\ UNCHANGED <<nextPid, kills, killAlls, waits, fsVars, env>>

\* a spawn() that catches the bridge error after having registered the handle
SpawnReject_Registers(i, error) ==
  /\ spawnCalls[i].result = "pending"
  /\ procs' = Append(procs, [ProcessImpl(spawnCalls[i].pid) EXCEPT !.monitor = "rejected"])
  /\ processes' = mapSet(processes, spawnCalls[i].pid, Len(procs) + 1)
  /\ spawnCalls' = [spawnCalls EXCEPT ![i] = [@ EXCEPT !.reply = error, !.result = error]]
  /\ UNCHANGED <<nextPid, kills, killAlls, pmEvents, waits, fsVars, env>>

\* the bridge rejects spawnProcess: the await throws out of spawn()
SpawnReject(i, error) ==
  /\ spawnCalls[i].result = "pending"
  /\ spawnCalls' = [spawnCalls EXCEPT ![i] = [@ EXCEPT !.reply = error, !.result = error]]
  /\ UNCHANGED <<nextPid, procs, processes, kills, killAlls, pmEvents, waits, fsVars, env>>

\* a kill(pid) that returns quietly when the pid is not registered
Kill_IgnoresUnknown(pid) ==
  /\ callsMade < MaxCalls
  /\ kills' = Append(kills,
                IF pid \notin DOMAIN processes
                THEN KillCall("manager", pid, 0, FALSE, "resolved", "none")
                ELSE processKill(processes[pid], "manager"))
  /\ UNCHANGED <<nextPid, spawnCalls, procs, processes, killAlls, pmEvents, waits, fsVars, env>>

\* ProcessManagerImpl.kill(pid) up to its await
Kill(pid) ==
  /\ callsMade < MaxCalls
  /\ kills' = Append(kills,
                IF pid \notin DOMAIN processes
                THEN KillCall("manager", pid, 0, FALSE, "rejected", "NotFound")
                ELSE processKill(processes[pid], "manager"))
  /\ UNCHANGED <<nextPid, spawnCalls, procs, processes, killAlls, pmEvents, waits, fsVars, env>>

\* ProcessImpl.kill() called on a handle the caller holds
HandleKill(h) ==
  /\ callsMade < MaxCalls
  /\ kills' = Append(kills, processKill(h, "handle"))
  /\ UNCHANGED <<nextPid, spawnCalls, procs, processes, killAlls, pmEvents, waits, fsVars, env>>

\* killAll() up to its await: one process.kill() per registered handle. via is
\* the caller: the user of the manager, or a dispose()
killAll(via) ==
  LET live == listProcesses
      made == [j \in 1..Len(live) |-> processKill(live[j], "killAll")]
      ks == kills \o made
      ka == [snapshot |-> { live[j] : j \in 1..Len(live) },
             kills |-> (Len(kills) + 1)..(Len(kills) + Len(live)),
             state |-> "pending", via |-> via]
  IN [kills |-> ks, killAlls |-> Append(killAlls, settleKillAll(ka, ks))]

KillAll ==
  /\ callsMade < MaxCalls
  /\ kills' = killAll("manager").kills
  /\ killAlls' = killAll("manager").killAlls
  /\ UNCHANGED <<nextPid, spawnCalls, procs, processes, pmEvents, waits, fsVars, env>>

\* the bridge answers killProcess: kill() marks the handle 'killed' and returns
KillResolve(k) ==
  /\ kills[k].state = "pending"
  /\ procs' = [procs EXCEPT ![kills[k].h] = [@ EXCEPT !.status = "killed"]]
  /\ kills' = [kills EXCEPT ![k] = [@ EXCEPT !.state = "resolved"]]
  /\ killAlls' = [a \in DOMAIN killAlls |-> settleKillAll(killAlls[a], kills')]
  /\ env' = afterKillAll(env, killAlls')
  /\ UNCHANGED <<nextPid, spawnCalls, processes, pmEvents, waits, fsVars>>

\* the bridge rejects killProcess: the await throws out of kill()
KillReject(k, error) ==
  /\ kills[k].state = "pending"
  /\ kills' = [kills EXCEPT ![k] = [@ EXCEPT !.state = "rejected", !.error = error]]
  /\ killAlls' = [a \in DOMAIN killAlls |-> settleKillAll(killAlls[a], kills')]
  /\ env' = afterKillAll(env, killAlls')
  /\ UNCHANGED <<nextPid, spawnCalls, procs, processes, pmEvents, waits, fsVars>>

\* a monitor that records the exit code of the process and leaves its status alone
MonitorResolve_KeepsRunning(h, exitCode) ==
  /\ procs[h].monitor = "waiting"
  /\ procs' = [procs EXCEPT ![h] =
                 [@ EXCEPT !.exitCode = Defined(exitCode), !.monitor = "resolved"]]
  /\ callOnExit(h, exitCode)
  /\ UNCHANGED <<nextPid, spawnCalls, kills, killAlls, waits, fsVars, env>>

\* monitorProcess(): waitForProcess resolved with exitCode
MonitorResolve(h, exitCode) ==
  /\ procs[h].monitor = "waiting"
  /\ procs' = [procs EXCEPT ![h] =
                 [@ EXCEPT !.exitCode = Defined(exitCode), !.status = "exited",
                           !.monitor = "resolved"]]
  /\ callOnExit(h, exitCode)
  /\ UNCHANGED <<nextPid, spawnCalls, kills, killAlls, waits, fsVars, env>>

\* monitorProcess(): waitForProcess resolved with exitCode and a process:exit
\* subscriber throws. The throw leaves emit() and onExit() inside the try block:
\* the catch block records -1 / 'killed' and calls onExit(-1), which publishes a
\* second process:exit; when the subscriber throws again, the error leaves
\* monitorProcess(), whose promise nobody handles
MonitorResolveThrowing(h, exitCode, again) ==
  /\ procs[h].monitor = "waiting"
  /\ procs[h].onExit
  /\ procs' = [procs EXCEPT ![h] =
                 [@ EXCEPT !.exitCode = Defined(-1), !.status = "killed",
                           !.monitor = "resolved",
                           !.thrown = IF again THEN <<"caught", "unhandled">>
                                      ELSE <<"caught">>]]
  /\ processes' = mapDelete(mapDelete(processes, procs[h].pid), procs[h].pid)
  /\ pmEvents' = pmEvents \o <<ExitEvent(procs[h].pid, exitCode), ExitEvent(procs[h].pid, -1)>>
  /\ UNCHANGED <<nextPid, spawnCalls, kills, killAlls, waits, fsVars, env>>

\* a monitor that records the status of a failed waitForProcess but no exit code
MonitorReject_NoExitCode(h) ==
  /\ procs[h].monitor = "waiting"
  /\ procs' = [procs EXCEPT ![h] = [@ EXCEPT !.status = "killed", !.monitor = "rejected"]]
  /\ callOnExit(h, -1)
  /\ UNCHANGED <<nextPid, spawnCalls, kills, killAlls, waits, fsVars, env>>

\* monitorProcess(): waitForProcess rejected
MonitorReject(h) ==
  /\ procs[h].monitor = "waiting"
  /\ procs' = [procs EXCEPT ![h] =
                 [@ EXCEPT !.exitCode = Defined(-1), !.status = "killed",
                           !.monitor = "rejected"]]
  /\ callOnExit(h, -1)
  /\ UNCHANGED <<nextPid, spawnCalls, kills, killAlls, waits, fsVars, env>>

\* a wait() invocation on handle h: resolved with value, or polling on a timer
WaitCall(h, state, value, polled) == [h |-> h, state |-> state, value |-> value, polled |-> polled]

\* ProcessImpl.wait(): returns the exit code when it is set; otherwise makes the
\* promise and runs checkExit() once, which arms the 100 ms timer
Wait(h) ==
  /\ callsMade < MaxCalls
  /\ waits' = Append(waits,
                IF procs[h].exitCode # Undefined
                THEN WaitCall(h, "resolved", procs[h].exitCode, FALSE)
                ELSE WaitCall(h, "polling", Undefined, TRUE))
  /\ UNCHANGED <<nextPid, spawnCalls, procs, processes, kills, killAlls, pmEvents, fsVars, env>>

\* the timer fires: checkExit() resolves the promise when the exit code is set,
\* and arms the timer again when it is not
checkExit(w) ==
  /\ waits[w].state = "polling"
  /\ waits' = IF procs[waits[w].h].exitCode # Undefined
              THEN [waits EXCEPT ![w] = WaitCall(@.h, "resolved", procs[@.h].exitCode, TRUE)]
              ELSE waits
  /\ UNCHANGED <<nextPid, spawnCalls, procs, processes, kills, killAlls, pmEvents, fsVars, env>>

\* pids a caller may pass to kill(): every pid handed out so far and the next one
PidInputs == 1..(MaxSpawns + 1)

PmNext ==
  \/ Spawn
  \/ \E i \in DOMAIN spawnCalls : SpawnResolve(i)
  \/ \E i \in DOMAIN spawnCalls, error \in BridgeErrors : SpawnReject(i, error)
  \/ \E pid \in PidInputs : Kill(pid)
  \/ \E h \in DOMAIN procs : HandleKill(h)
  \/ KillAll
  \/ \E k \in DOMAIN kills : KillResolve(k)
  \/ \E k \in DOMAIN kills, error \in BridgeErrors : KillReject(k, error)
  \/ \E h \in DOMAIN procs, exitCode \in ExitCodes : MonitorResolve(h, exitCode)
  \/ \E h \in DOMAIN procs : MonitorReject(h)

----------------------------------------------------------------------------
(* Orchestrator: actions                                                   *)

\* a step of the orchestrator that leaves the environment object as E: when a
\* dispose() has come to its killAll(), the call is made on the process manager
\* and the dispose() goes on if the call is answered at once
EnvApply(E) ==
  IF \E d \in DOMAIN E.disposes : E.disposes[d].state = "callKillAll"
  THEN LET d == CHOOSE c \in DOMAIN E.disposes : E.disposes[c].state = "callKillAll"
           r == killAll("dispose")
       IN /\ kills' = r.kills
          /\ killAlls' = r.killAlls
          /\ env' = afterKillAll(
                      [E EXCEPT !.disposes[d].state = "killing",
                                !.disposes[d].killAll = Len(r.killAlls),
                                !.disposes[d].log = Append(@, <<"processManager", "killAll">>)],
                      r.killAlls)
  ELSE /\ env' = E
       /\ UNCHANGED <<kills, killAlls>>

\* the calls made so far on the environment: initialize(), loadFeature(), dispose()
userLoads == { l \in DOMAIN env.loads : env.loads[l].by.kind = "user" }

envCallsMade == Len(env.inits) + Cardinality(userLoads) + Len(env.disposes)

\* new DevEnvironment(config)
NewDevEnvironment(config) ==
  /\ ~env.constructed
  /\ env' = [env EXCEPT !.config = config, !.constructed = TRUE]
  /\ UNCHANGED <<fsVars, pmVars>>

\* mount(files): the walk runs to its end or to the first call that throws;
\* fsOp, fsResult and fsEvents are those of the last call it made
Mount(files) ==
  LET r == mountFiles(store, <<>>, files, 1, <<>>, now)
      last == r.log[Len(r.log)]
  IN /\ fsReady
     /\ r.log # <<>>
     /\ env' = [env EXCEPT !.mounts = Append(@, MountCall(files, r))]
     /\ store' = r.store
     /\ fsOp' = last.call
     /\ fsResult' = last.err
     /\ fsEvents' = last.events
     /\ fsRead' = <<>>
     /\ watches' = emit(watches, last.events)
     /\ UNCHANGED <<fsReady, now, norm, pmVars>>

\* initialize() up to its first await
EnvInitialize ==
  /\ env.constructed
  /\ env' = IF env.initialized
            THEN [env EXCEPT !.inits = Append(@, [InitCall EXCEPT !.state = "resolved"])]
            ELSE startStep([env EXCEPT !.inits = Append(@, InitCall)], Len(env.inits) + 1)
  /\ UNCHANGED <<fsVars, pmVars>>

\* openDB, loadAsset, workerApi.initialize or fileSystem.initialize settles for
\* initialize() number i, which runs on to its next await
InitSettle(i, ok) ==
  /\ env.inits[i].state = "running"
  /\ LET op == awaited(env, i).op IN
       /\ op \in {"openDB", "loadAsset", "workerInitialize", "fsInitialize"}
       /\ op = "workerInitialize" => env.worker # "terminated"
       /\ env' = IF ok THEN nextAwait(awaitDone(env, op), i)
                 ELSE failInit(env, i, Failed(op))
       /\ IF ok /\ op = "fsInitialize"
          THEN /\ store' = initialize(store, now)
               /\ fsReady' = TRUE
               /\ fsOp' = FsCall("initialize", <<>>, FALSE, NoContent)
               /\ fsResult' = "OK"
               /\ fsEvents' = <<>>
               /\ fsRead' = <<>>
               /\ watches' = emit(watches, <<>>)
               /\ UNCHANGED <<now, norm>>
          ELSE UNCHANGED fsVars
  /\ UNCHANGED pmVars

\* features a caller may ask loadFeature for
FeatureInputs == {"bundler"}

\* loadFeature(feature) called on the environment
LoadFeature(feature) ==
  /\ env.constructed
  /\ env' = loadFeature(env, feature, By("user", 0))
  /\ UNCHANGED <<fsVars, pmVars>>

\* the import (and the widget's create) of loadFeature call l settles
LoadSettle(l, ok) ==
  /\ env.loads[l].state = "importing"
  /\ LET c == env.loads[l] IN
       env' = IF ~ok
              THEN resume([env EXCEPT !.loads[l].state = "rejected",
                                      !.loads[l].error = Failed("import")],
                          c.by, Failed("import"))
              ELSE CASE c.feature = "terminal" ->
                          resume([env EXCEPT !.terminal = "loaded", !.loads[l].state = "resolved"],
                                 c.by, NoError)
                     [] c.feature = "editor" ->
                          resume([env EXCEPT !.editor = "loaded", !.loads[l].state = "resolved"],
                                 c.by, NoError)
                     [] c.feature = "bundler" ->
                          registerPlugin([env EXCEPT !.loads[l].state = "registering"], "bundler",
                                         <<"new", Len(env.regs) + 1>>, By("load", l))
  /\ UNCHANGED <<fsVars, pmVars>>

\* plugin.initialize(env) of registerPlugin call r settles: the plugin is set in
\* the registry, or the error goes to the caller
RegSettle(r, ok) ==
  /\ env.regs[r].state = "initializing"
  /\ LET c == env.regs[r] IN
       env' = IF ok
              THEN resume([env EXCEPT !.plugins = pluginsSet(@, c.name, c.plugin),
                                      !.regs[r].state = "registered"],
                          c.by, NoError)
              ELSE resume([env EXCEPT !.regs[r].state = "rejected",
                                      !.regs[r].error = Failed("pluginInitialize")],
                          c.by, Failed("pluginInitialize"))
  /\ UNCHANGED <<fsVars, pmVars>>

\* dispose() up to its first await
Dispose ==
  /\ env.constructed
  /\ LET d == Len(env.disposes) + 1
         names == { env.plugins[j].name : j \in DOMAIN env.plugins }
         widgets == { w \in {"terminal", "editor"} :
                        (w = "terminal" /\ env.terminal # "none")
                          \/ (w = "editor" /\ env.editor # "none") }
     IN EnvApply(runDispose([env EXCEPT !.disposes = Append(@,
                                DisposeCall(names, widgets, env.initialized))], d))
  /\ UNCHANGED <<fsVars, nextPid, spawnCalls, procs, processes, waits, pmEvents>>

\* the destroy() awaited by dispose() number d settles
DestroySettle(d, ok) ==
  /\ env.disposes[d].state = "destroying"
  /\ IF ok
     THEN EnvApply(runDispose([env EXCEPT !.disposes[d].next = @ + 1], d))
     ELSE /\ env' = [env EXCEPT !.disposes[d].state = "rejected",
                                !.disposes[d].error = Failed("destroy")]
          /\ UNCHANGED <<kills, killAlls>>
  /\ UNCHANGED <<fsVars, nextPid, spawnCalls, procs, processes, waits, pmEvents>>

\* createMockWorkerApi(worker): a bridge with its own counter and pending calls
CreateMockWorkerApi ==
  /\ ~env.workerApi.made
  /\ env' = [env EXCEPT !.workerApi.made = TRUE]
  /\ UNCHANGED <<fsVars, pmVars>>

BridgeMethods == {"killProcess"}

\* a method of the bridge is called
CallMethod(method) ==
  /\ env.workerApi.made
  /\ Len(env.workerApi.calls) < MaxCalls
  /\ env' = [env EXCEPT !.workerApi = callMethod(@, method)]
  /\ UNCHANGED <<fsVars, pmVars>>

\* ids a message of the worker may echo: those handed out and one never used;
\* the error messages it may carry: none, an empty one, a non-empty one
MessageIds == 0..MaxCalls

ErrorFields == {Undefined, Defined(""), Defined("boom")}

\* the worker posts a message: the listener of the bridge runs
WorkerMessage(id, error) ==
  /\ env.workerApi.made
  /\ Len(env.workerApi.received) < MaxCalls
  /\ env' = [env EXCEPT !.workerApi =
               onResponse(@, Response(id, IF error = Undefined THEN "done" ELSE "none", error))]
  /\ UNCHANGED <<fsVars, pmVars>>

BridgeNext ==
  \/ CreateMockWorkerApi
  \/ \E method \in BridgeMethods : CallMethod(method)
  \/ \E id \in MessageIds, error \in ErrorFields : WorkerMessage(id, error)

\* the start of an environment: initialize() and loadFeature() calls, each
\* awaited call resolving or rejecting
StartupNext ==
  \/ \E config \in Configs : NewDevEnvironment(config)
  \/ envCallsMade < MaxEnvCalls /\ EnvInitialize
  \/ \E i \in DOMAIN env.inits, ok \in BOOLEAN : InitSettle(i, ok)
  \/ envCallsMade < MaxEnvCalls /\ \E feature \in FeatureInputs : LoadFeature(feature)
  \/ \E l \in DOMAIN env.loads, ok \in BOOLEAN : LoadSettle(l, ok)
  \/ \E r \in DOMAIN env.regs, ok \in BOOLEAN : RegSettle(r, ok)

\* the life of an environment up to dispose(), with its process manager and its
\* bridge: features and plugins load, spawn() is called on an initialized
\* environment, requests are answered by a worker that has been initialized and
\* not terminated
EnvNext ==
  \/ \E config \in Configs : NewDevEnvironment(config)
  \/ envCallsMade + callsMade < MaxCalls /\ EnvInitialize
  \/ \E i \in DOMAIN env.inits, ok \in BOOLEAN : InitSettle(i, ok)
  \/ \E l \in DOMAIN env.loads : LoadSettle(l, TRUE)
  \/ \E r \in DOMAIN env.regs : RegSettle(r, TRUE)
  \/ envCallsMade + callsMade < MaxCalls /\ Dispose
  \/ \E d \in DOMAIN env.disposes, ok \in BOOLEAN : DestroySettle(d, ok)
  \/ env.initialized /\ envCallsMade + callsMade < MaxCalls /\ Spawn
  \/ env.worker = "ready" /\ \E i \in DOMAIN spawnCalls : SpawnResolve(i)
  \/ env.worker = "ready" /\ \E k \in DOMAIN kills : KillResolve(k)
  \/ env.worker = "ready" /\ \E k \in DOMAIN kills, error \in BridgeErrors : KillReject(k, error)
  \/ env.worker = "ready" /\ \E h \in DOMAIN procs, exitCode \in ExitCodes : MonitorResolve(h, exitCode)

----------------------------------------------------------------------------

(* Specifications                                                          *)

EnvInit == env = NoEnvironment

Init == FsInit /\ PmInit /\ EnvInit

Next ==
  \/ FsNext
  \/ Tick
  \/ PmNext

Spec == Init /\ [][Next]_vars

\* the file system alone, and the process manager alone: the two share no state
FSSpec == Init /\ [][FsNext]_vars

PMSpec == Init /\ [][PmNext]_vars

\* files written, read back and removed while the clock runs
RwPaths ==
  { <<"/">>,
    <<"/", "a">>,
    <<"/", "b">>,
    <<"/", "b", "/", ".", ".", "/", "a">>,
    <<"a", "/">> }

RwNext ==
  \/ Initialize
  \/ \E path \in RwPaths, content \in Contents : WriteFile(path, content)
  \/ \E path \in RwPaths : ReadFile(path)
  \/ \E path \in RwPaths : Unlink(path)
  \/ Tick

RWSpec == Init /\ [][RwNext]_vars

\* the trees handed to mount: a file, a text file in a directory, nested
\* directories beside a file, a directory whose key is a path, and a key that
\* names the same path as the directory before it
Trees ==
  { <<Leaf(<<"a">>, Bytes(<<120>>))>>,
    <<Group(<<"a">>, <<Leaf(<<"b">>, Text(<<233>>))>>)>>,
    <<Group(<<"a">>, <<Group(<<"b">>, <<>>)>>), Leaf(<<"b">>, Bytes(<<120>>))>>,
    <<Group(<<"b", "/", "a">>, <<Leaf(<<"b">>, Bytes(<<120>>))>>)>>,
    <<Group(<<"a">>, <<>>), Leaf(<<".", "/", "a">>, Bytes(<<120>>))>> }

\* trees mounted on a file system that may already hold '/a' or '/b'
MountNext ==
  \/ Initialize
  \/ WriteFile(<<"/", "a">>, Bytes(<<195, 169>>))
  \/ Mkdir(<<"/", "b">>, FALSE)
  \/ Len(env.mounts) < MaxEnvCalls /\ \E files \in Trees : Mount(files)

MountSpec == Init /\ [][MountNext]_vars

\* watches made and cancelled while entries are created and removed
WatchPaths == { <<"/">>, <<"/", "a">>, <<"a", "/">> }

WatchNext ==
  \/ Initialize
  \/ \E path \in WatchPaths : Watch(path)
  \/ \E id \in DOMAIN watches.made : Unwatch(id)
  \/ Mkdir(<<"/", "a", "/", "b">>, TRUE)
  \/ WriteFile(<<"/", "a", "b">>, Bytes(<<120>>))
  \/ Rmdir(<<"/", "a">>, TRUE)
  \/ Unlink(<<"/", "a", "b">>)

WatchSpec == Init /\ [][WatchNext]_vars

\* normalizePath alone, on every path of PathStrings
NormInit ==
  /\ norm \in { NormCall(path) : path \in PathStrings }
  /\ store = <<>>
  /\ fsReady = FALSE
  /\ now = 0
  /\ fsOp = FsCall("none", <<>>, FALSE, NoContent)
  /\ fsResult = "OK"
  /\ fsEvents = <<>>
  /\ fsRead = <<>>
  /\ watches = NoWatches
  /\ PmInit
  /\ EnvInit

NormSpec == NormInit /\ [][NormalizePath]_vars

\* the orchestrator: starting an environment, and its life up to dispose()
StartupSpec == Init /\ [][StartupNext]_vars

EnvSpec == Init /\ [][EnvNext]_vars

\* an environment with a process, its waiters and a dispose(): the worker
\* answers killProcess and waitForProcess for as long as it is not terminated
ShutdownNext ==
  \/ \E config \in Configs : NewDevEnvironment(config)
  \/ env.inits = <<>> /\ EnvInitialize
  \/ \E i \in DOMAIN env.inits : InitSettle(i, TRUE)
  \/ \E l \in DOMAIN env.loads : LoadSettle(l, TRUE)
  \/ \E r \in DOMAIN env.regs : RegSettle(r, TRUE)
  \/ env.initialized /\ env.disposes = <<>> /\ Dispose
  \/ \E d \in DOMAIN env.disposes : DestroySettle(d, TRUE)
  \/ env.initialized /\ Spawn
  \/ env.worker = "ready" /\ \E i \in DOMAIN spawnCalls : SpawnResolve(i)
  \/ \E h \in DOMAIN procs : HandleKill(h)
  \/ env.worker = "ready" /\ \E k \in DOMAIN kills : KillResolve(k)
  \/ env.worker = "ready" /\ \E h \in DOMAIN procs, exitCode \in ExitCodes : MonitorResolve(h, exitCode)
  \/ \E h \in DOMAIN procs : Wait(h)
  \/ \E w \in DOMAIN waits : checkExit(w)

\* timers fire, and a worker that is not terminated answers every request:
\* killProcess, and waitForProcess for a process that was killed
ShutdownSpec ==
  /\ Init
  /\ [][ShutdownNext]_vars
  /\ \A w \in 1..MaxCalls : WF_vars(w \in DOMAIN waits /\ checkExit(w))
  /\ \A k \in 1..(MaxCalls + MaxSpawns) :
       WF_vars(env.worker = "ready" /\ k \in DOMAIN kills /\ KillResolve(k))
  /\ \A h \in 1..MaxSpawns :
       WF_vars(env.worker = "ready" /\ h \in DOMAIN procs
                 /\ \E exitCode \in ExitCodes : MonitorResolve(h, exitCode))
  /\ WF_vars(\E d \in DOMAIN env.disposes : DestroySettle(d, TRUE))

\* processes whose process:exit subscriber may throw
SubscriberNext ==
  \/ Spawn
  \/ \E i \in DOMAIN spawnCalls : SpawnResolve(i)
  \/ \E h \in DOMAIN procs : HandleKill(h)
  \/ \E k \in DOMAIN kills : KillResolve(k)
  \/ \E h \in DOMAIN procs, exitCode \in ExitCodes : MonitorResolve(h, exitCode)
  \/ \E h \in DOMAIN procs, exitCode \in ExitCodes, again \in BOOLEAN :
       MonitorResolveThrowing(h, exitCode, again)
  \/ \E h \in DOMAIN procs : MonitorReject(h)
  \/ \E h \in DOMAIN procs : Wait(h)
  \/ \E w \in DOMAIN waits : checkExit(w)

SubscriberSpec == Init /\ [][SubscriberNext]_vars

\* the message-based bridge: calls in flight, the worker's messages in any order
BridgeSpec == Init /\ [][BridgeNext]_vars

\* a process's output streams: messages dispatched by the two ports, a reader
StreamNames == {"stdout", "stderr"}

\* the messages dispatched so far by the ports of all handles
RECURSIVE messagesFrom(_)
messagesFrom(h) ==
  IF h = 0 THEN 0
  ELSE Len(procs[h].stdout.received) + Len(procs[h].stderr.received) + messagesFrom(h - 1)

\* the port of a stream dispatches a message: the chunk of a data message is
\* numbered by its place among the messages of the port
PortMessage(h, name, type) ==
  /\ procs[h][name].portOpen
  /\ procs' = [procs EXCEPT ![h][name] =
                 onmessage(@, type, IF type = "data" THEN Len(@.received) + 1 ELSE 0)]
  /\ UNCHANGED <<nextPid, spawnCalls, processes, kills, killAlls, waits, pmEvents, fsVars, env>>

\* the reader of a stream reads the next queued chunk
StreamRead(h, name) ==
  /\ procs[h][name].queue # <<>>
  /\ procs' = [procs EXCEPT ![h][name] = pull(@)]
  /\ UNCHANGED <<nextPid, spawnCalls, processes, kills, killAlls, waits, pmEvents, fsVars, env>>

\* the reader of a stream cancels it
StreamCancel(h, name) ==
  /\ procs[h][name].state = "readable"
  /\ procs' = [procs EXCEPT ![h][name] = cancel(@)]
  /\ UNCHANGED <<nextPid, spawnCalls, processes, kills, killAlls, waits, pmEvents, fsVars, env>>

StreamNext ==
  \/ spawnCalls = <<>> /\ Spawn
  \/ \E i \in DOMAIN spawnCalls : SpawnResolve(i)
  \/ \E h \in DOMAIN procs, name \in StreamNames, type \in {"data", "close"} :
       messagesFrom(Len(procs)) < MaxCalls /\ PortMessage(h, name, type)
  \/ \E h \in DOMAIN procs, name \in StreamNames : StreamRead(h, name)
  \/ \E h \in DOMAIN procs, name \in StreamNames : StreamCancel(h, name)

StreamSpec == Init /\ [][StreamNext]_vars

\* the writer calls made so far on the stdin streams of all handles
RECURSIVE writerCalls(_)
writerCalls(h) ==
  IF h = 0 THEN 0
  ELSE Len(procs[h].stdin.written) + procs[h].stdin.refused
         + (IF procs[h].stdin.closeRequested THEN 1 ELSE 0)
         + (IF procs[h].stdin.state = "errored" THEN 1 ELSE 0) + writerCalls(h - 1)

\* the holder of a handle writes a chunk to its stdin: the chunk is numbered by
\* its place among the chunks accepted
StdinWrite(h) ==
  /\ writerCalls(Len(procs)) < MaxCalls
  /\ procs' = [procs EXCEPT ![h].stdin = writerWrite(@, Len(@.written) + 1)]
  /\ UNCHANGED <<nextPid, spawnCalls, processes, kills, killAlls, waits, pmEvents, fsVars, env>>

\* the holder of a handle closes its stdin
StdinClose(h) ==
  /\ writerCalls(Len(procs)) < MaxCalls
  /\ procs' = [procs EXCEPT ![h].stdin = writerClose(@)]
  /\ UNCHANGED <<nextPid, spawnCalls, processes, kills, killAlls, waits, pmEvents, fsVars, env>>

\* the holder of a handle aborts its stdin
StdinAbort(h) ==
  /\ writerCalls(Len(procs)) < MaxCalls
  /\ procs[h].stdin.state = "writable"
  /\ procs' = [procs EXCEPT ![h].stdin = writerAbort(@)]
  /\ UNCHANGED <<nextPid, spawnCalls, processes, kills, killAlls, waits, pmEvents, fsVars, env>>

\* the stream of a handle's stdin calls its sink
StdinAdvance(h) ==
  /\ procs[h].stdin.state = "writable"
  /\ procs[h].stdin.queue # <<>> \/ procs[h].stdin.closeRequested
  /\ procs' = [procs EXCEPT ![h].stdin = advanceQueue(@)]
  /\ UNCHANGED <<nextPid, spawnCalls, processes, kills, killAlls, waits, pmEvents, fsVars, env>>

StdinNext ==
  \/ Spawn
  \/ \E i \in DOMAIN spawnCalls : SpawnResolve(i)
  \/ \E h \in DOMAIN procs : StdinWrite(h)
  \/ \E h \in DOMAIN procs : StdinClose(h)
  \/ \E h \in DOMAIN procs : StdinAbort(h)
  \/ \E h \in DOMAIN procs : StdinAdvance(h)

StdinSpec == Init /\ [][StdinNext]_vars

\* the handles of the process manager with their callers: kill() and wait() on a
\* handle, the bridge's answers, the timers
PmWaitNext ==
  \/ Spawn
  \/ \E i \in DOMAIN spawnCalls : SpawnResolve(i)
  \/ \E i \in DOMAIN spawnCalls, error \in BridgeErrors : SpawnReject(i, error)
  \/ \E h \in DOMAIN procs : HandleKill(h)
  \/ \E k \in DOMAIN kills : KillResolve(k)
  \/ \E k \in DOMAIN kills, error \in BridgeErrors : KillReject(k, error)
  \/ \E h \in DOMAIN procs, exitCode \in ExitCodes : MonitorResolve(h, exitCode)
  \/ \E h \in DOMAIN procs : MonitorReject(h)
  \/ \E h \in DOMAIN procs : Wait(h)
  \/ \E w \in DOMAIN waits : checkExit(w)

\* setTimeout callbacks are run by the event loop: a timer that stays armed fires
PMWaitSpec ==
  /\ Init
  /\ [][PmWaitNext]_vars
  /\ \A w \in 1..MaxCalls : WF_vars(w \in DOMAIN waits /\ checkExit(w))

----------------------------------------------------------------------------
(* Properties                                                              *)

\* C1: once the file system is initialised, the store always holds an entry
\* for '/' and that entry is a directory.
C1_RootAlwaysDirectory ==
  fsReady => (dbHas(store, ROOT) /\ store[ROOT].type = "directory")

\* C2: every entry other than '/' has its parent path in the store, as a directory.
C2_ParentIsDirectory ==
  fsReady =>
    \A k \in (DOMAIN store) \ {ROOT} :
      dbHas(store, dirname(k)) /\ store[dirname(k)].type = "directory"

\* C3: a status that has left 'running' never changes again.
C3_TerminalStatusIsFinal ==
  [][\A h \in DOMAIN procs :
       procs[h].status # "running" => procs'[h].status = procs[h].status]_vars

\* C4: the exit code is defined exactly when the status is not 'running', and once
\* defined it keeps its value.
C4_ExitCodeSetWithStatus ==
  [][/\ \A h \in DOMAIN procs' :
          (procs'[h].exitCode # Undefined) <=> (procs'[h].status # "running")
     /\ \A h \in DOMAIN procs :
          procs[h].exitCode # Undefined => procs'[h].exitCode = procs[h].exitCode]_vars

\* C5: every process in the live set (listProcesses / getProcess) is 'running'.
C5_LiveSetIsRunning ==
  \A pid \in DOMAIN processes : procs[processes[pid]].status = "running"

\* C6: pids are handed out from 1, strictly increasing in the order of the spawn()
\* invocations, and no two handles carry the same pid.
C6_PidsIncreaseAndAreUnique ==
  /\ spawnCalls # <<>> => spawnCalls[1].pid = 1
  /\ \A i, j \in DOMAIN spawnCalls : i < j => spawnCalls[i].pid < spawnCalls[j].pid
  /\ \A g, h \in DOMAIN procs : g # h => procs[g].pid # procs[h].pid

\* two handles exist, the first of them already exited when the second was made
C6_Witness ==
  /\ Len(procs) = 2
  /\ procs[1].status = "exited"
  /\ procs[2].status = "running"

\* C7: when the bridge rejects a spawn request, spawn() fails with the bridge's
\* error, and the live set, the handles (hence the monitors) and the published
\* events are what they were.
C7_FailedSpawnRegistersNothing ==
  [][\A i \in DOMAIN spawnCalls :
       (spawnCalls[i].result = "pending" /\ spawnCalls'[i].reply \in BridgeErrors)
         => /\ spawnCalls'[i].result = spawnCalls'[i].reply
            /\ processes' = processes
            /\ procs' = procs
            /\ pmEvents' = pmEvents]_vars

\* a spawn() has failed while another process is registered
C7_Witness ==
  /\ \E i \in DOMAIN spawnCalls : spawnCalls[i].result \in BridgeErrors
  /\ processes # EmptyMap

\* the kill() invocation a step adds, when it adds exactly one made through the manager
managerKillMade ==
  /\ Len(kills') = Len(kills) + 1
  /\ kills'[Len(kills')].via = "manager"

\* C8: ProcessManager.kill(pid) on a process of this manager whose status is
\* 'exited' succeeds, sends nothing to the bridge, changes no handle and
\* publishes no event.
C8_KillOfExitedIsNoOp ==
  [][(/\ managerKillMade
      /\ \E h \in DOMAIN procs :
           procs[h].pid = kills'[Len(kills')].pid /\ procs[h].status = "exited")
       => /\ kills'[Len(kills')].state = "resolved"
          /\ ~kills'[Len(kills')].sent
          /\ procs' = procs
          /\ pmEvents' = pmEvents]_vars

\* C9: ProcessManager.kill(pid) for a pid this manager never handed out fails
\* with NotFound, sends nothing to the bridge and changes neither the live set
\* nor any handle.
C9_KillOfUnknownPidFails ==
  [][(managerKillMade /\ kills'[Len(kills')].pid >= nextPid)
       => /\ kills'[Len(kills')].state = "rejected"
          /\ kills'[Len(kills')].error = "NotFound"
          /\ ~kills'[Len(kills')].sent
          /\ processes' = processes
          /\ procs' = procs]_vars

\* kill() was called with a pid never handed out, while a process is registered
C9_Witness ==
  /\ \E k \in DOMAIN kills :
       kills[k].via = "manager" /\ kills[k].pid >= nextPid /\ kills[k].error = "NotFound"
  /\ processes # EmptyMap

\* killAll() number a resolves in this step
killAllResolves(a) ==
  /\ killAlls'[a].state = "resolved"
  /\ (a \in DOMAIN killAlls => killAlls[a].state = "pending")

\* C10 as claimed: when a killAll() resolves, no process in the live set is 'running'.
C10_KillAllDrainsLiveSet ==
  [][\A a \in DOMAIN killAlls' :
       killAllResolves(a)
         => \A pid \in DOMAIN processes' : procs'[processes'[pid]].status # "running"]_vars

\* C10 amended: when a killAll() resolves, no process that was in the live set
\* when it was invoked is 'running'.
C10_KillAllDrainsItsSnapshot ==
  [][\A a \in DOMAIN killAlls' :
       killAllResolves(a)
         => \A h \in killAlls'[a].snapshot : procs'[h].status # "running"]_vars

\* a killAll() that had to send a kill request has resolved, and the live set
\* holds a running process that was registered after the call
C10_Witness ==
  \E a \in DOMAIN killAlls :
    /\ killAlls[a].state = "resolved"
    /\ \E k \in killAlls[a].kills : kills[k].sent
    /\ \E pid \in DOMAIN processes :
         processes[pid] \notin killAlls[a].snapshot /\ procs[processes[pid]].status = "running"

\* C11: killAll() makes one kill per process of the live set at the call, and
\* has not returned (resolved or rejected) while one of those kills is pending.
C11_KillAllWaitsForEveryKill ==
  \A a \in DOMAIN killAlls :
    /\ \A h \in killAlls[a].snapshot :
         \E k \in killAlls[a].kills : kills[k].h = h /\ kills[k].via = "killAll"
    /\ killAlls[a].state # "pending"
         => \A k \in killAlls[a].kills : kills[k].state # "pending"

\* wait() number w has been made and the bridge has answered the wait-for-exit
\* call of its process
waitCanFinish(w) ==
  IF w \in DOMAIN waits THEN procs[waits[w].h].monitor # "waiting" ELSE FALSE

\* wait() number w has resolved
waitResolved(w) ==
  IF w \in DOMAIN waits THEN waits[w].state = "resolved" ELSE FALSE

\* C12: once the bridge's wait-for-exit call of a process has resolved or
\* rejected, every wait() on that process resolves; and a wait() made when the
\* exit code is set resolves at once, with no timer armed.
C12_WaitEventuallyResolves ==
  /\ \A w \in 1..MaxCalls : waitCanFinish(w) ~> waitResolved(w)
  /\ [][\A w \in (DOMAIN waits') \ (DOMAIN waits) :
          procs[waits'[w].h].exitCode # Undefined
            => (waits'[w].state = "resolved" /\ ~waits'[w].polled)]_vars

\* a wait() that had to poll has resolved after the bridge rejected the
\* wait-for-exit call, and a later wait() on the same process resolved at once
C12_Witness ==
  \E v, w \in DOMAIN waits :
    /\ waits[v].h = waits[w].h
    /\ procs[waits[v].h].monitor = "rejected"
    /\ waits[v].state = "resolved" /\ waits[v].polled
    /\ waits[w].state = "resolved" /\ ~waits[w].polled

\* wait() number w resolves in this step
waitResolves(w) ==
  /\ waits'[w].state = "resolved"
  /\ (w \in DOMAIN waits => waits[w].state = "polling")

orderedLog ==
  <<<<"start", "initializeDatabase">>, <<"done", "initializeDatabase">>,
    <<"start", "initializeWorker">>, <<"done", "initializeWorker">>,
    <<"start", "initializeFileSystem">>, <<"done", "initializeFileSystem">>,
    <<"start", "initializeProcessManager">>, <<"done", "initializeProcessManager">>,
    <<"start", "loadRequestedFeatures">>, <<"done", "loadRequestedFeatures">>,
    <<"start", "initializePlugins">>, <<"done", "initializePlugins">>>>

\* in environment E, initialize() number i has completed this step
stepDone(E, i, step) ==
  /\ i \in DOMAIN E.inits
  /\ \E j \in DOMAIN E.inits[i].log : E.inits[i].log[j] = <<"done", step>>

\* initialize() number i has published 'ready'
readyBy(i) == \E j \in DOMAIN env.events : env.events[j] = EnvEvent("ready", i, NoError)

\* initialize() number i completes this step now
completes(i, step) == stepDone(env', i, step) /\ ~stepDone(env, i, step)

\* C14: an initialize() starts and completes its steps in the order store,
\* bridge (with the bridge's initialize call), VFS, process manager, features,
\* plugins, no step starting before the one before it has completed (with its
\* effect on the environment), and publishes 'ready' only after all six have
\* completed.
C14_StepsRunInOrder ==
  [][\A i \in DOMAIN env'.inits :
       LET log == env'.inits[i].log IN
         /\ Len(log) <= Len(orderedLog)
         /\ \A j \in DOMAIN log : log[j] = orderedLog[j]
         /\ completes(i, "initializeDatabase") => env'.db = "open"
         /\ completes(i, "initializeWorker") => env'.worker = "ready"
         /\ completes(i, "initializeFileSystem") => fsReady'
         /\ completes(i, "initializeProcessManager") => env'.processManager
         /\ completes(i, "loadRequestedFeatures") => env'.terminal = "loaded"
         /\ completes(i, "initializePlugins") => pluginsHas(env'.plugins, "bundler")
         /\ readyBy(i)' => log = orderedLog]_vars

\* an initialize() has run its six steps and published 'ready'
C14_Witness ==
  \E i \in DOMAIN env.inits :
    /\ env.inits[i].state = "resolved"
    /\ env.inits[i].log = orderedLog
    /\ readyBy(i)
    /\ env.initialized

\* the 'error' events initialize() number i has published, in environment E
errorsBy(E, i) == { j \in DOMAIN E.events : E.events[j].topic = "error" /\ E.events[j].by = i }

\* C15: an initialize() one of whose steps fails runs nothing after it (its
\* log ends with the start of the failed step and never grows), publishes the
\* failure once on 'error', hands it to onError, rejects with that same error,
\* and neither publishes 'ready' nor calls onReady.
C15_FailedInitAborts ==
  [][\A i \in DOMAIN env'.inits :
       env'.inits[i].state = "rejected"
         => LET c == env'.inits[i] IN
              /\ c.error # NoError
              /\ c.log # <<>> /\ c.log[Len(c.log)][1] = "start"
              /\ Cardinality(errorsBy(env', i)) = 1
              /\ \A j \in errorsBy(env', i) : env'.events[j].error = c.error
              /\ c.onError = <<c.error>>
              /\ c.onReady = 0
              /\ ~readyBy(i)'
              /\ (i \in DOMAIN env.inits /\ env.inits[i].state = "rejected")
                   => c = env.inits[i]]_vars

\* an initialize() has failed in its last step, the registration of a plugin
\* whose name a loadFeature('bundler') had registered before
C15_Witness ==
  \E i \in DOMAIN env.inits :
    /\ env.inits[i].state = "rejected"
    /\ env.inits[i].error = Failed("AlreadyRegistered")
    /\ env.inits[i].log[Len(env.inits[i].log)] = <<"start", "initializePlugins">>
    /\ env.terminal = "loaded"

\* the place of a teardown action in the order claimed for dispose()
rank(e) ==
  CASE e[1] = "destroy" -> 1
    [] e[1] = "terminal" -> 2
    [] e[1] = "editor" -> 3
    [] e[1] = "processManager" -> 4
    [] e[1] = "worker" -> 5
    [] e[1] = "db" -> 6

\* dispose() number d has done this teardown action
torn(d, what) == \E j \in DOMAIN env.disposes[d].log : env.disposes[d].log[j][1] = what

\* C16: a dispose() destroys the plugins, then the terminal, then the editor,
\* then calls killAll(), then terminates the worker, then closes the store;
\* when it calls killAll() it has called destroy() for every registry entry and
\* every widget there was at the call, and when it terminates the worker every
\* kill its killAll() made has been answered and no process it found is running.
C16_DisposeOrder ==
  \A d \in DOMAIN env.disposes :
    LET c == env.disposes[d] IN
      /\ \A j, k \in DOMAIN c.log :
           j < k => /\ rank(c.log[j]) <= rank(c.log[k])
                    /\ rank(c.log[j]) = rank(c.log[k]) => rank(c.log[j]) = 1
      /\ torn(d, "processManager")
           => /\ \A name \in c.names :
                   \E j \in DOMAIN c.log : c.log[j][1] = "destroy" /\ c.log[j][2].name = name
              /\ \A w \in c.widgets : torn(d, w)
      /\ torn(d, "worker")
           => /\ torn(d, "processManager")
              /\ \A k \in killAlls[c.killAll].kills : kills[k].state = "resolved"
              /\ \A h \in killAlls[c.killAll].snapshot : procs[h].status # "running"
      /\ torn(d, "db") => torn(d, "worker")
      /\ c.state = "resolved" => torn(d, "db")

\* a dispose() of an initialized environment with a running process has gone
\* through the five stages
C16_Witness ==
  \E d \in DOMAIN env.disposes :
    /\ env.disposes[d].state = "resolved"
    /\ torn(d, "destroy") /\ torn(d, "terminal") /\ torn(d, "processManager")
    /\ torn(d, "worker") /\ torn(d, "db")
    /\ \E k \in killAlls[env.disposes[d].killAll].kills : kills[k].sent
    /\ env.worker = "terminated" /\ env.db = "closed" /\ ~env.initialized

\* C17: an entry of the plugin registry is never replaced by another plugin of
\* the same name, and no two plugin objects of one name are ever initialized
\* into the registry, whatever the interleaving of the registrations.
C17_RegistryNeverReplaced ==
  [][/\ \A j \in DOMAIN env.plugins : env'.plugins[j] = env.plugins[j]
     /\ \A q, r \in DOMAIN env'.regs :
          (/\ env'.regs[q].state = "registered"
           /\ env'.regs[r].state = "registered"
           /\ env'.regs[q].name = env'.regs[r].name)
            => env'.regs[q].plugin = env'.regs[r].plugin]_vars

\* the string r is an absolute normalized path: it starts with '/', ends with
\* '/' only when it is '/', and no segment between two slashes is empty, '.'
\* or '..'
isNormalized(r) ==
  /\ r # <<>>
  /\ r[1] = SLASH
  /\ \A i \in 1..Len(r) :
       r[i] = SLASH
         => /\ i = Len(r) => r = ROOT
            /\ i < Len(r) => r[i + 1] # SLASH
            /\ ~(/\ i + 1 <= Len(r)
                 /\ r[i + 1] = "."
                 /\ (i + 1 = Len(r) \/ r[i + 2] = SLASH))
            /\ ~(/\ i + 2 <= Len(r)
                 /\ r[i + 1] = "." /\ r[i + 2] = "."
                 /\ (i + 2 = Len(r) \/ r[i + 3] = SLASH))

\* C18: for every path, normalizePath of the result of normalizePath is that
\* result, and the result starts with '/', has no trailing '/' unless it is '/',
\* and has no empty, '.' or '..' segment.
C18_NormalizeIdempotent ==
  norm.result # <<>>
    => /\ norm.again = norm.result
       /\ isNormalized(norm.result[1])

\* normalizePath has run on a path with a '..' that climbs above the root and
\* a trailing slash
C18_Witness ==
  /\ norm.path = <<".", ".", "/", "a", "/">>
  /\ norm.result = <<<<"/", "a">>>>

\* the step is a call of the file-system operation `name`: fsOp' is the call,
\* fsResult' its outcome, fsEvents' what it published
fsCalled(name) ==
  /\ fsOp'.name = name
  /\ UNCHANGED <<fsReady, now, norm, pmVars, env>>
  /\ watches'.handlers = watches.handlers
  /\ DOMAIN watches'.made = DOMAIN watches.made
  /\ \A id \in DOMAIN watches.made : watches'.made[id].offs = watches.made[id].offs

\* the step is a successful writeFile(path, content)
wrote(path, content) ==
  /\ WriteFile(path, content)
  /\ fsResult' = "OK"

\* the step published a 'file:change' event for the key
mutates(key) ==
  /\ fsOp' # fsOp \/ store' # store
  /\ \E e \in 1..Len(fsEvents') : fsEvents'[e].path = key

\* C19: a successful writeFile(p, b) of bytes b leaves exactly one file entry
\* under normalizePath(p), holding b, and adds no other key; a step that does
\* not mutate a key leaves its entry as it is; and readFile(p') resolves with
\* the content of the entry under normalizePath(p'). Together: after a
\* successful write, until the path is mutated again, every p' that normalizes
\* to the same path reads b back, and a second write replaces the first.
C19_WriteReadRoundTrip ==
  [][LET p == normalizePath(fsOp'.path) IN
     /\ fsCalled("writeFile") /\ fsResult' = "OK" /\ fsOp'.content.type = "Uint8Array"
          => /\ DOMAIN store' = DOMAIN store \cup {p}
             /\ store'[p].type = "file"
             /\ store'[p].content = fsOp'.content
             /\ \A other \in RwPaths :
                  normalizePath(other) = p
                    => readFile(store', other) = [err |-> "OK", value |-> <<fsOp'.content>>]
     /\ \A key \in DOMAIN store :
          ~mutates(key) => key \in DOMAIN store' /\ store'[key].content = store[key].content
     /\ fsCalled("readFile") /\ dbHas(store, p) /\ store[p].type = "file"
          => /\ fsResult' = "OK"
             /\ fsRead' = <<store[p].content>>
    ]_vars

\* a file written as '/a' and written again has been read back through a path
\* that normalizes to '/a': the read returned the bytes of the only entry
C19_Witness ==
  /\ fsOp.name = "readFile"
  /\ fsOp.path = <<"/", "b", "/", ".", ".", "/", "a">>
  /\ fsResult = "OK"
  /\ fsRead = <<Bytes(<<195, 169>>)>>
  /\ store[<<"/", "a">>].modified = 1

\* C20: a successful writeFile to a path that holds a file (which only an
\* earlier successful writeFile can have put there) leaves the entry with a
\* modified time strictly greater than the one it had.
C20_ModifiedStrictlyIncreases ==
  [][\A path \in RwPaths, content \in Contents :
       /\ wrote(path, content)
       /\ dbHas(store, normalizePath(path))
       /\ store[normalizePath(path)].type = "file"
       => store'[normalizePath(path)].modified > store[normalizePath(path)].modified
    ]_vars

\* the entry at the parent path of the normalized path is a directory
parentIsDirectory(st, path) ==
  LET dirPath == dirname(normalizePath(path))
  IN dbHas(st, dirPath) /\ st[dirPath].type = "directory"

\* C21: writeFile(p, c) for a non-root p whose parent path holds no directory
\* fails with ENOENT, leaves the store as it was and publishes no event.
C21_WriteFileNeedsParentDirectory ==
  [][/\ fsCalled("writeFile")
     /\ normalizePath(fsOp'.path) # ROOT
     /\ ~parentIsDirectory(store, fsOp'.path)
     => /\ fsResult' = "ENOENT"
        /\ store' = store
        /\ fsEvents' = <<>>
    ]_vars

\* C22: mkdir(p, true) on an existing directory succeeds, leaves the store
\* unchanged and publishes no event; mkdir(p, false) on any existing path, and
\* mkdir(p, true) on an existing file, fail with EEXIST and leave the store
\* unchanged.
C22_MkdirOnExistingPath ==
  [][LET p == normalizePath(fsOp'.path) IN
     fsCalled("mkdir") /\ dbHas(store, p)
       => /\ store' = store
          /\ IF fsOp'.recursive /\ store[p].type = "directory"
             THEN fsResult' = "OK" /\ fsEvents' = <<>>
             ELSE fsResult' = "EEXIST"
    ]_vars

\* mkdir('/a/b', true) has been called on the existing directory '/a/b': it
\* succeeded and published nothing
C22_Witness ==
  /\ fsOp.name = "mkdir"
  /\ fsOp.path = <<"/", "a", "/", "b">>
  /\ fsOp.recursive
  /\ fsResult = "OK"
  /\ fsEvents = <<>>
  /\ dbHas(store, <<"/", "a", "/", "b">>)
  /\ store[<<"/", "a", "/", "b">>].type = "directory"

\* C23: rmdir(p, false) on a directory with at least one entry beneath it fails
\* with ENOTEMPTY; rmdir on a missing path fails with ENOENT and on a file with
\* ENOTDIR; in each case the store is unchanged and no event is published.
C23_RmdirFailures ==
  [][LET p == normalizePath(fsOp'.path)
         beneath == { k \in DOMAIN store :
                        k # p /\ startsWith(k, IF p = ROOT THEN ROOT ELSE p \o <<SLASH>>) }
     IN fsCalled("rmdir")
          => /\ ~dbHas(store, p)
                  => fsResult' = "ENOENT" /\ store' = store /\ fsEvents' = <<>>
             /\ dbHas(store, p) /\ store[p].type = "file"
                  => fsResult' = "ENOTDIR" /\ store' = store /\ fsEvents' = <<>>
             /\ dbHas(store, p) /\ store[p].type = "directory"
                                /\ ~fsOp'.recursive /\ beneath # {}
                  => fsResult' = "ENOTEMPTY" /\ store' = store /\ fsEvents' = <<>>
    ]_vars

\* rmdir('/a', false) has been refused on the directory '/a' holding '/a/b'
C23_Witness ==
  /\ fsOp.name = "rmdir"
  /\ fsOp.path = <<"/", "a">>
  /\ ~fsOp.recursive
  /\ fsResult = "ENOTEMPTY"
  /\ dbHas(store, <<"/", "a">>)
  /\ dbHas(store, <<"/", "a", "/", "b">>)

\* the key is the path p or lies beneath it
inSubtree(key, p) ==
  key = p \/ startsWith(key, IF p = ROOT THEN ROOT ELSE p \o <<SLASH>>)

\* C24: whenever rmdir(p, true) succeeds, no entry at p or beneath p remains,
\* every entry outside the subtree of p is untouched, exactly one unlink event
\* was published per removed entry, and the event of each descendant precedes
\* that of a directory containing it.
C24_RecursiveRmdirRemovesSubtree ==
  [][LET p == normalizePath(fsOp'.path)
         ev == fsEvents'
     IN fsCalled("rmdir") /\ fsOp'.recursive /\ fsResult' = "OK"
          => /\ \A k \in DOMAIN store' : ~inSubtree(k, p)
             /\ \A k \in DOMAIN store :
                  ~inSubtree(k, p) => k \in DOMAIN store' /\ store'[k] = store[k]
             /\ DOMAIN store' \subseteq DOMAIN store
             /\ \A e \in 1..Len(ev) : ev[e].type = "unlink"
             /\ { ev[e].path : e \in 1..Len(ev) } = (DOMAIN store) \ (DOMAIN store')
             /\ \A e, f \in 1..Len(ev) : ev[e].path = ev[f].path => e = f
             /\ \A e, f \in 1..Len(ev) :
                  ev[e].path # ev[f].path /\ inSubtree(ev[e].path, ev[f].path) => e < f
    ]_vars

\* the names of the entries whose parent path is the directory d
childNames(st, d) == { basename(k) : k \in { f \in (DOMAIN st) \ {ROOT} : dirname(f) = d } }

\* C25: for every directory d of the store, readdir(d) returns, in strictly
\* ascending order, exactly the last segments of the entries whose parent path
\* is d.
C25_ReaddirListsChildren ==
  fsReady =>
    \A d \in DOMAIN store :
      store[d].type = "directory"
        => LET r == readdir(store, d) IN
           /\ r.err = "OK"
           /\ \A i \in 1..(Len(r.value) - 1) : StrLess(r.value[i], r.value[i + 1])
           /\ { r.value[i] : i \in 1..Len(r.value) } = childNames(store, d)

\* C26: readFile(p) and unlink(p) fail with ENOENT when the store has no entry
\* at the normalized p and with EISDIR when the entry is a directory, leaving
\* the store unchanged and publishing nothing; a successful unlink removes
\* exactly the entry at p and publishes exactly one unlink event, for p.
C26_ReadFileUnlinkOutcomes ==
  [][LET p == normalizePath(fsOp'.path) IN
     /\ fsCalled("readFile") \/ fsCalled("unlink")
          => /\ ~dbHas(store, p)
                  => fsResult' = "ENOENT" /\ store' = store /\ fsEvents' = <<>>
             /\ dbHas(store, p) /\ store[p].type = "directory"
                  => fsResult' = "EISDIR" /\ store' = store /\ fsEvents' = <<>>
     /\ fsCalled("unlink") /\ fsResult' = "OK"
          => /\ dbHas(store, p)
             /\ DOMAIN store' = (DOMAIN store) \ {p}
             /\ \A k \in DOMAIN store' : store'[k] = store[k]
             /\ fsEvents' = <<ChangeEvent(p, "unlink")>>
     /\ fsCalled("unlink") /\ dbHas(store, p) /\ store[p].type = "file"
          => fsResult' = "OK"
    ]_vars

\* unlink has removed the file '/a' through a path that normalizes to it:
\* one unlink event for '/a', and the file '/b' is still there
C26_Witness ==
  /\ fsOp.name = "unlink"
  /\ fsOp.path = <<"/", "b", "/", ".", ".", "/", "a">>
  /\ fsResult = "OK"
  /\ fsEvents = <<ChangeEvent(<<"/", "a">>, "unlink")>>
  /\ ~dbHas(store, <<"/", "a">>)
  /\ dbHas(store, <<"/", "b">>)

\* the step is a file-system operation that can publish events
fsMutation ==
  \E name \in {"writeFile", "mkdir", "rmdir", "unlink"} : fsCalled(name)

\* watch number id has its handler on the emitter
watching(id) == \E h \in DOMAIN watches.handlers : watches.handlers[h] = id

\* the path q written relative to the directory w above it
relativeTo(q, w) == IF w = ROOT THEN sliceFrom(q, 1) ELSE sliceFrom(q, Len(w) + 1)

\* C27: for every watch in force on a path w and every operation, the callback
\* is invoked once for each published event whose path is w or lies beneath w,
\* in order and with the event's type, and for no other event; for a path
\* beneath w the name reported is the path relative to w.
C27_WatchFiresForSubtree ==
  [][fsMutation
       => \A id \in DOMAIN watches.made :
            watching(id)
              => LET w == watches.made[id].path
                     matching == SelectSeq(fsEvents', LAMBDA e : inSubtree(e.path, w))
                     calls == watches'.made[id].calls
                 IN /\ Len(calls) = Len(matching)
                    /\ \A i \in 1..Len(matching) :
                         i <= Len(calls)
                           => /\ calls[i].type = matching[i].type
                              /\ matching[i].path # w
                                   => calls[i].filename = relativeTo(matching[i].path, w)
    ]_vars

\* C28: among any watches, several on one path included, the function
\* returned by a watch takes that watch's handler off the emitter and no
\* other: a watch is in force exactly as long as its function has never been
\* called, however often the functions of other watches (or its own, again)
\* are called; every operation delivers every matching event to each watch in
\* force and nothing to the others.
C28_UnsubscribeStopsOneWatch ==
  [][/\ \A id \in DOMAIN watches'.made :
          (\E h \in DOMAIN watches'.handlers : watches'.handlers[h] = id)
            <=> watches'.made[id].offs = 0
     /\ fsMutation
          => \A id \in DOMAIN watches.made :
               watches'.made[id].calls =
                 IF watches.made[id].offs = 0
                 THEN handlerCalls(watches.made[id].path, fsEvents')
                 ELSE <<>>
    ]_vars

\* two watches on '/a'; the function of the first has been called twice; an
\* operation then published events that reached the second and not the first
C28_Witness ==
  /\ Len(watches.made) = 2
  /\ watches.made[1].path = <<"/", "a">>
  /\ watches.made[2].path = <<"/", "a">>
  /\ watches.made[1].offs = 2
  /\ watches.made[2].offs = 0
  /\ watches.made[1].calls = <<>>
  /\ watches.made[2].calls # <<>>

\* the nodes of a tree from entry i on: each with the path made by joining the
\* keys of its ancestors and its own with '/', and the joined path of the
\* group that holds it
RECURSIVE treeNodes(_, _, _)
treeNodes(tree, i, base) ==
  IF i > Len(tree) THEN {}
  ELSE LET node == tree[i]
           joined == IF base = <<>> THEN node.key ELSE base \o <<SLASH>> \o node.key
       IN {[path |-> joined, kind |-> node.kind, content |-> node.content,
            nested |-> base # <<>>, parent |-> base]}
            \cup treeNodes(node.entries, 1, joined)
            \cup treeNodes(tree, i + 1, base)

\* the bytes a leaf's content stands for
leafBytes(content) ==
  IF content.type = "string" THEN Bytes(encode(content.data)) ELSE content

\* C29: when mount(t) succeeds, every group of t is a directory at the path
\* joined from its ancestors' keys and its own, every leaf is a file at its
\* joined path holding the leaf's content, and the directory of each group was
\* created before any of the group's children was written.
C29_MountCreatesTree ==
  [][LET m == env'.mounts[Len(env'.mounts)] IN
     Len(env'.mounts) = Len(env.mounts) + 1 /\ m.err = "OK"
       => \A n \in treeNodes(m.files, 1, <<>>) :
            LET p == normalizePath(n.path) IN
            /\ dbHas(store', p)
            /\ n.kind = "group" => store'[p].type = "directory"
            /\ n.kind = "leaf" => /\ store'[p].type = "file"
                                  /\ store'[p].content = leafBytes(n.content)
            /\ n.nested
                 => \E i, j \in 1..Len(m.log) :
                      /\ i < j
                      /\ m.log[i].call.name = "mkdir"
                      /\ m.log[i].call.path = n.parent
                      /\ m.log[j].call.path = n.path
    ]_vars

\* the chunks of the data messages among the first n messages
RECURSIVE chunksOf(_, _)
chunksOf(received, n) ==
  IF n = 0 THEN <<>>
  ELSE IF received[n].type = "data"
       THEN Append(chunksOf(received, n - 1), received[n].buffer)
       ELSE chunksOf(received, n - 1)

\* the chunks of the data messages dispatched before the first close message
beforeClose(received) ==
  LET closeAt == { i \in DOMAIN received : received[i].type = "close" }
  IN IF closeAt = {} THEN chunksOf(received, Len(received))
     ELSE chunksOf(received, (CHOOSE i \in closeAt : \A j \in closeAt : i <= j) - 1)

\* C30: for each of a process's stdout and stderr streams, the chunks read and
\* still queued are, in order, the chunks of the data messages dispatched
\* before the close message (those read being the first of them when the
\* reader has cancelled), the stream has closed at most once, and no message
\* has made the handler throw.
C30_StreamDeliversInOrder ==
  \A h \in DOMAIN procs, name \in StreamNames :
    LET s == procs[h][name]
        sent == beforeClose(s.received)
    IN /\ Len(s.read) <= Len(sent)
       /\ s.read = SubSeq(sent, 1, Len(s.read))
       /\ s.portOpen => s.read \o s.queue = sent
       /\ s.closes <= 1
       /\ s.thrown = <<>>

\* the monitor of handle h takes this step out of a failed waitForProcess
monitorFails(h) ==
  /\ procs[h].monitor = "waiting"
  /\ procs'[h].monitor = "rejected"

\* C31: when waitForProcess fails for a process, the monitor records exit code
\* -1 and status 'killed', the process leaves the live set, exactly one
\* process:exit event with exit code -1 is published for it, and no call of
\* spawn, kill, killAll or wait is settled by the failure.
C31_MonitorFailureIsRecovered ==
  [][\A h \in DOMAIN procs :
       monitorFails(h)
         => /\ procs'[h].exitCode = Defined(-1)
            /\ procs'[h].status = "killed"
            /\ procs[h].pid \notin DOMAIN processes'
            /\ pmEvents' = Append(pmEvents, ExitEvent(procs[h].pid, -1))
            /\ UNCHANGED <<spawnCalls, kills, killAlls, waits>>
    ]_vars

\* the monitor of a running, registered process has failed: the process is
\* 'killed' with exit code -1, off the live set, and its exit event is the last
C31_Witness ==
  \E h \in DOMAIN procs :
    /\ procs[h].monitor = "rejected"
    /\ procs[h].status = "killed"
    /\ procs[h].exitCode = Defined(-1)
    /\ procs[h].pid \notin DOMAIN processes
    /\ pmEvents # <<>>
    /\ pmEvents[Len(pmEvents)] = ExitEvent(procs[h].pid, -1)
    /\ \A k \in DOMAIN kills : kills[k].h # h

\* positions in the event log of the process:spawn / process:exit events of pid
spawnEventsOf(pid) ==
  { j \in DOMAIN pmEvents : pmEvents[j].type = "process:spawn" /\ pmEvents[j].pid = pid }

exitEventsOf(pid) ==
  { j \in DOMAIN pmEvents : pmEvents[j].type = "process:exit" /\ pmEvents[j].pid = pid }

RECURSIVE dataOf(_, _)
dataOf(sent, n) ==
  IF n = 0 THEN <<>>
  ELSE IF sent[n].type = "data" THEN Append(dataOf(sent, n - 1), sent[n].buffer)
  ELSE dataOf(sent, n - 1)

\* C33: on a process's stdin, the data messages posted are the chunks written,
\* one message per chunk and in write order (a chunk not posted yet is still
\* queued, unless the writer aborted the stream); a closed stream has posted
\* every chunk and then exactly one close message and has closed its port; and
\* no message follows a close message.
C33_StdinForwardsInOrder ==
  \A h \in DOMAIN procs :
    LET s == procs[h].stdin
        data == dataOf(s.sent, Len(s.sent))
    IN /\ Len(data) <= Len(s.written)
       /\ data = SubSeq(s.written, 1, Len(data))
       /\ s.state # "errored" => data \o s.queue = s.written
       /\ \A j \in DOMAIN s.sent : s.sent[j].type = "close" => j = Len(s.sent)
       /\ s.portOpen <=> \A j \in DOMAIN s.sent : s.sent[j].type # "close"
       /\ s.state = "closed"
            <=> /\ s.sent # <<>>
                /\ s.sent[Len(s.sent)].type = "close"
                /\ Len(s.sent) = Len(s.written) + 1

\* two chunks were written to a stdin and it was closed: the port carried the
\* two chunks in order, then the close, and is closed
C33_Witness ==
  \E h \in DOMAIN procs :
    /\ procs[h].stdin.state = "closed"
    /\ procs[h].stdin.written = <<1, 2>>
    /\ procs[h].stdin.sent = << [type |-> "data", buffer |-> 1],
                                [type |-> "data", buffer |-> 2],
                                [type |-> "close", buffer |-> 0] >>
    /\ ~procs[h].stdin.portOpen

\* the worker's message of this step, when the step is one
posted(msg) == env'.workerApi.received = Append(env.workerApi.received, msg)

\* every call settled so far was settled once, by a message echoing its id:
\* rejected with the message's error when it carries one, resolved with its
\* result when it carries none
settledByOwnResponse(b) ==
  \A c \in DOMAIN b.calls :
    /\ b.calls[c].settles <= 1
    /\ b.calls[c].state = "pending" <=> b.calls[c].settles = 0
    /\ b.calls[c].state # "pending"
         => LET msg == b.received[b.calls[c].by] IN
            /\ msg.id = b.calls[c].id
            /\ msg.error # Undefined
                 => b.calls[c].state = "rejected" /\ b.calls[c].value = msg.error
            /\ msg.error = Undefined
                 => b.calls[c].state = "resolved" /\ b.calls[c].value = Defined(msg.result)

\* C34: in the message-based bridge, calls have pairwise distinct request ids,
\* every call is settled at most once and only by the response echoing its id,
\* a response with an error field rejects the call with that message and any
\* other response resolves it, and a message whose id matches no pending call
\* changes nothing.
C34_BridgeCorrelation ==
  [][/\ \A c, d \in DOMAIN env'.workerApi.calls :
          c # d => env'.workerApi.calls[c].id # env'.workerApi.calls[d].id
     /\ settledByOwnResponse(env'.workerApi)
     /\ \A id \in MessageIds, error \in ErrorFields, result \in {"done", "none"} :
          posted(Response(id, result, error))
            => /\ \A c \in DOMAIN env.workerApi.calls :
                    env.workerApi.calls[c].id # id
                      => env'.workerApi.calls[c] = env.workerApi.calls[c]
               /\ id \notin DOMAIN env.workerApi.pendingCalls
                    => /\ env'.workerApi.calls = env.workerApi.calls
                       /\ env'.workerApi.pendingCalls = env.workerApi.pendingCalls
                       /\ env'.workerApi.messageId = env.workerApi.messageId
    ]_vars

\* a kill() on handle h has resolved
killResolved(h) ==
  /\ h \in DOMAIN procs
  /\ \E k \in DOMAIN kills : kills[k].h = h /\ kills[k].state = "resolved"

\* handle h is off the live set and no wait() on it is still polling
exitObserved(h) ==
  /\ h \in DOMAIN procs
  /\ IF h \in DOMAIN procs THEN procs[h].pid \notin DOMAIN processes ELSE FALSE
  /\ \A w \in DOMAIN waits : waits[w].h = h => waits[w].state = "resolved"

\* C35: once a kill() on a process has resolved, every wait() on it eventually
\* resolves and the process eventually leaves the live set, also when a
\* dispose() terminates the worker right after its killAll() has resolved.
C35_KilledProcessIsReaped ==
  \A h \in 1..MaxSpawns : killResolved(h) ~> exitObserved(h)

\* the monitor of handle h reports a normal termination in this step and a
\* process:exit subscriber throws
exitSubscriberThrows(h) ==
  /\ procs[h].monitor = "waiting"
  /\ procs'[h].monitor = "resolved"
  /\ procs'[h].thrown # <<>>

\* C36: when a process:exit subscriber throws while the monitor reports a normal
\* termination, the exit code and the status recorded stay those of the normal
\* termination, no second process:exit is published for the pid, and the
\* monitor does not end in an unhandled failure.
C36_ThrowingExitSubscriber ==
  [][\A h \in DOMAIN procs :
       exitSubscriberThrows(h)
         => /\ procs'[h].status = "exited"
            /\ \E exitCode \in ExitCodes : procs'[h].exitCode = Defined(exitCode)
            /\ Cardinality({ j \in DOMAIN pmEvents' :
                               /\ pmEvents'[j].type = "process:exit"
                               /\ pmEvents'[j].pid = procs[h].pid }) <= 1
            /\ \A j \in DOMAIN procs'[h].thrown : procs'[h].thrown[j] # "unhandled"
    ]_vars

\* the initialize() calls of environment E that have entered step
startedBy(E, step) ==
  { i \in DOMAIN E.inits :
      \E j \in DOMAIN E.inits[i].log : E.inits[i].log[j] = <<"start", step>> }

\* C37: however initialize() calls on one environment interleave, each of the
\* six initialization steps is run by at most one of them and 'ready' is
\* published at most once; an initialize() made on an initialized environment
\* does nothing.
C37_InitializeRunsOnce ==
  [][/\ \A s \in DOMAIN Steps : Cardinality(startedBy(env', Steps[s])) <= 1
     /\ Cardinality({ j \in DOMAIN env'.events : env'.events[j].topic = "ready" }) <= 1
     /\ (env.initialized /\ Len(env'.inits) > Len(env.inits))
          => env' = [env EXCEPT !.inits = Append(@, [InitCall EXCEPT !.state = "resolved"])]
    ]_vars

\* C38: a dispose() called on an initialized environment does not end before
\* it has terminated the worker and closed the store, also when a plugin's
\* destroy() or a kill of its killAll() fails, and it calls destroy() on every
\* plugin registered at the call, also when an earlier destroy() failed.
C38_DisposeAlwaysTearsDown ==
  \A d \in DOMAIN env.disposes :
    LET c == env.disposes[d] IN
      (c.initialized /\ c.state \in {"resolved", "rejected"})
        => /\ torn(d, "worker")
           /\ torn(d, "db")
           /\ \A name \in c.names :
                \E j \in DOMAIN c.log : c.log[j][1] = "destroy" /\ c.log[j][2].name = name

\* C39: no operation changes the kind of an entry that exists before and after
\* it: writeFile on a directory (the root included) never makes it a file, and
\* mkdir never makes a file a directory.
C39_KindNeverChanges ==
  [][\A key \in (DOMAIN store) \cap (DOMAIN store') :
       store'[key].type = store[key].type]_vars

\* the operations of the file system that may fail
FsOps == {"readFile", "writeFile", "mkdir", "rmdir", "unlink", "readdir", "stat"}

\* C40: a file-system operation that fails leaves the store as it was before
\* the call and publishes no file-change event; in particular a recursive rmdir
\* that fails part-way has removed nothing. And every event published reports a
\* mutation the store has undergone: the entry of an 'unlink' is gone, the entry
\* of a 'change' is there.
C40_FailureChangesNothing ==
  [][\A name \in FsOps :
       fsCalled(name)
         => /\ fsResult' # "OK" => (store' = store /\ fsEvents' = <<>>)
            /\ \A e \in DOMAIN fsEvents' :
                 IF fsEvents'[e].type = "unlink"
                 THEN ~dbHas(store', fsEvents'[e].path)
                 ELSE dbHas(store', fsEvents'[e].path)
    ]_vars

====
